---- MODULE Spec2Model ----
(***************************************************************************)
(* State-machine model of the signal library (signal / derived / effect    *)
(* with the Manual, Immediate and Delayed execution handlers).             *)
(*                                                                         *)
(* The library is single threaded and synchronous: every top-level call    *)
(* (constructing a node, calling a handle, update, drop) runs to its end    *)
(* before the next one starts.  One action of the model is one top-level    *)
(* call; what the call does is computed by the operators below, which       *)
(* thread the engine state `st` (a record of all mutable fields) through    *)
(* the same calls, in the same order, as the source.  A thrown exception    *)
(* is the field st.err; `finally` blocks are the places that keep running   *)
(* while st.err is set.                                                     *)
(***************************************************************************)
EXTENDS Integers, Sequences, FiniteSets, TLC

(***************************************************************************)
(* Bounds of the model.                                                    *)
(***************************************************************************)
\* Top-level calls are taken until the version clock has advanced MaxWrites times
\* beyond the construction of the program's signals.
MaxWrites == 3
\* Numbers stored in signals are 0 .. ValMod-1; callbacks compute modulo ValMod.
ValMod == 4
\* Callback executions allowed inside one top-level call before it is cut off.
MaxFuel == 10
\* A client passes a throwing manipulator to modify while the nesting counter is
\* below MaxDepth (every such call leaves the counter one higher).
MaxDepth == 1
\* Length of the lists of weak references that are traversed.
MaxLen == 4

(***************************************************************************)
(* JavaScript values.  Numbers are 0 .. ValMod-1.  Three more values occur: *)
(* undefined (also standing for null: the code only tests `== undefined`    *)
(* and truthiness, which do not tell them apart), NaN (arithmetic on        *)
(* undefined) and the function object of the method DerivedNode.value.      *)
(***************************************************************************)
Undefined == 0 - 1
NaN == 0 - 2
ValueMethod == 0 - 3
MIN_SEQ == 0

Numbers == 0 .. (ValMod - 1)

\* `x === null`: false of the undefined that a call without argument passes
IsNullStrict(v) == FALSE
\* `x == undefined`
IsNullish(v) == v = Undefined
\* `if (x)`: 0, NaN and undefined are falsy, every other number and a function are truthy
Truthy(v) == v > 0 \/ v = ValueMethod
\* a comparison that finds no two values the same
ObjectIsNever(a, b) == FALSE
\* Object.is on the values of the model
ObjectIs(a, b) == a = b
\* x + y of the callbacks (numbers modulo ValMod; undefined + x is NaN)
Add(a, b) == IF a < 0 \/ b < 0 THEN NaN ELSE (a + b) % ValMod
\* m * x + k of the callbacks
Lin(m, x, k) == IF x < 0 THEN NaN ELSE (m * x + k) % ValMod

RECURSIVE SumSeq(_)
SumSeq(s) == IF s = <<>> THEN 0 ELSE Add(Head(s), SumSeq(Tail(s)))

Range(s) == {s[i] : i \in 1 .. Len(s)}

(***************************************************************************)
(* A JavaScript Map keyed by node id, as the sequence of its keys in        *)
(* insertion order (the maps hold the node or a reference to it as value).  *)
(***************************************************************************)
MapSet(m, k) == IF k \in Range(m) THEN m ELSE Append(m, k)
MapDelete(m, k) == SelectSeq(m, LAMBDA x : x # k)

(***************************************************************************)
(* Programs.  A program is the list of nodes a client constructs, in        *)
(* construction order (node i gets id i), with the callback of every        *)
(* derived and effect.  A callback receives the values of its declared      *)
(* dependencies (none for the dynamic flavour), adds them up, runs its      *)
(* steps in order and, for a derived, returns mul * sum + add:              *)
(*   read  n    call handle n with no argument and add the result           *)
(*   write n k  call writable handle n with the argument sum + k            *)
(*   call  n    call effect handle n                                        *)
(*   readif n   if the sum so far is not 0, read n like read does           *)
(*   modify n k call modify(n, x => ...) with the manipulator k              *)
(***************************************************************************)
Rd(n) == [op |-> "read", node |-> n, k |-> 0]
Wr(n, k) == [op |-> "write", node |-> n, k |-> k]
Ca(n) == [op |-> "call", node |-> n, k |-> 0]
RdIf(n) == [op |-> "readif", node |-> n, k |-> 0]
Md(n, k) == [op |-> "modify", node |-> n, k |-> k]

\* The manipulators passed to modify: x => {} (changes nothing), x => { x.n += 1 }
\* and x => { throw ... }
Keep == 0
Bump == 1
Fail == 0 - 4
Manipulators == {Keep, Bump, Fail}

\* signal(initial)
Sig(v) ==
    [kind |-> "signal", fixed |-> TRUE, init |-> v, deps |-> <<>>,
     mul |-> 1, add |-> 0, ops |-> <<>>]
\* derived(...deps, calc)
Der(ds, m, k, ops) ==
    [kind |-> "derived", fixed |-> TRUE, init |-> Undefined, deps |-> ds,
     mul |-> m, add |-> k, ops |-> ops]
\* derived(calc)
DynDer(m, k, ops) ==
    [kind |-> "derived", fixed |-> FALSE, init |-> Undefined, deps |-> <<>>,
     mul |-> m, add |-> k, ops |-> ops]
\* derived(...deps, calc).init(v)
DerInit(ds, m, k, v) ==
    [kind |-> "derived", fixed |-> TRUE, init |-> v, deps |-> ds,
     mul |-> m, add |-> k, ops |-> <<>>]
\* effect(...deps, act)
Eff(ds, ops) ==
    [kind |-> "effect", fixed |-> TRUE, init |-> Undefined, deps |-> ds,
     mul |-> 1, add |-> 0, ops |-> ops]
\* effect(act)
DynEff(ops) ==
    [kind |-> "effect", fixed |-> FALSE, init |-> Undefined, deps |-> <<>>,
     mul |-> 1, add |-> 0, ops |-> ops]

(***************************************************************************)
(* Besides its nodes a program fixes what its client does with them:        *)
(*   lists     the lists it passes to update(items)                         *)
(*   vals      the numbers it writes to signals                             *)
(*   drops     the nodes it may drop                                        *)
(*   args      whether it also reads signals through both kinds of handle    *)
(*             and calls handles with undefined / with arguments they do     *)
(*             not take                                                      *)
(*   early     whether it calls handles before all nodes are constructed     *)
(*   handlers  the execution handlers it is run under                        *)
(***************************************************************************)
AllHandlers == {"Manual", "Immediate", "Delayed"}

\* s, t, a = s + t, b = 2 * a, and an effect on t that writes s and then reads b
ProgChain ==
    [nodes |-> << Sig(1), Sig(1), Der(<<1, 2>>, 1, 0, <<>>), Der(<<3>>, 2, 0, <<>>),
                  Eff(<<2>>, <<Wr(1, 1), Rd(4)>>) >>,
     lists |-> << <<3, 4, 5>> >>, vals |-> {0, 2}, drops |-> {}, args |-> FALSE,
     early |-> FALSE, handlers |-> AllHandlers]

\* s, t, u, a = f(s, t), b = g(u), c = a + b and an effect over a and b
ProgTransitive ==
    [nodes |-> << Sig(1), Sig(2), Sig(0), Der(<<1, 2>>, 1, 0, <<>>), Der(<<3>>, 2, 0, <<>>),
                  Der(<<4, 5>>, 1, 0, <<>>), Eff(<<4, 5>>, <<>>) >>,
     lists |-> << <<6>>, <<7>> >>, vals |-> {1}, drops |-> {}, args |-> FALSE,
     early |-> FALSE, handlers |-> {"Manual"}]

\* s, t, u, a, b, c over {s, t, u}, d over {a, b, c}, e over {b, d}
ProgDiamond ==
    [nodes |-> << Sig(1), Sig(2), Sig(0),
                  Der(<<1, 2, 3>>, 1, 0, <<>>), Der(<<1, 2, 3>>, 1, 1, <<>>),
                  Der(<<1, 2, 3>>, 2, 0, <<>>),
                  Der(<<4, 5, 6>>, 1, 0, <<>>), Der(<<5, 7>>, 1, 0, <<>>) >>,
     lists |-> << <<4, 5, 6, 7, 8>> >>, vals |-> {1}, drops |-> {}, args |-> FALSE,
     early |-> FALSE, handlers |-> {"Manual"}]

\* the same with effects d over {a, b, c} and e over {a, b}
ProgDiamondEffects ==
    [nodes |-> << Sig(1), Sig(2), Sig(0),
                  Der(<<1, 2, 3>>, 1, 0, <<>>), Der(<<1, 2, 3>>, 1, 1, <<>>),
                  Der(<<1, 2, 3>>, 2, 0, <<>>),
                  Eff(<<4, 5, 6>>, <<>>), Eff(<<4, 5>>, <<>>) >>,
     lists |-> << <<7, 8>> >>, vals |-> {1}, drops |-> {}, args |-> FALSE,
     early |-> FALSE, handlers |-> {"Manual"}]

\* s, justCalc, justAct and callbacks that write s or call justAct:
\* enterSet (static derived), enterSetDyn (dynamic derived), enterAct (derived
\* calling an effect), enterActEffect (effect calling an effect)
ProgPermissions ==
    [nodes |-> << Sig(1), Der(<<1>>, 1, 0, <<>>), Eff(<<1>>, <<>>),
                  Der(<<1>>, 1, 0, <<Wr(1, 1)>>), DynDer(1, 0, <<Rd(1), Wr(1, 0)>>),
                  Der(<<1>>, 1, 0, <<Ca(3)>>), Eff(<<1>>, <<Ca(3)>>) >>,
     lists |-> << <<2, 3>> >>, vals |-> {0, 2}, drops |-> {}, args |-> FALSE,
     early |-> FALSE, handlers |-> AllHandlers]

\* s, t, c = 2 * t, an effect copying s to t and an effect over s and c
ProgRelay ==
    [nodes |-> << Sig(1), Sig(1), Der(<<2>>, 2, 0, <<>>),
                  Eff(<<1>>, <<Wr(2, 0)>>), Eff(<<1, 3>>, <<>>) >>,
     lists |-> << <<3, 4, 5>> >>, vals |-> {0, 2}, drops |-> {}, args |-> FALSE,
     early |-> FALSE, handlers |-> AllHandlers]

\* s, d = s + 1 and an effect over d, used through every handle in every way
ProgFacade ==
    [nodes |-> << Sig(1), Der(<<1>>, 1, 1, <<>>), Eff(<<2>>, <<>>) >>,
     lists |-> << <<2, 3>> >>, vals |-> {0, 1, 2}, drops |-> {2, 3}, args |-> TRUE,
     early |-> TRUE, handlers |-> AllHandlers]

\* s, u, a = s + 1, b = 2 * a and an effect over b; nothing depends on u
ProgUnrelated ==
    [nodes |-> << Sig(1), Sig(1), Der(<<1>>, 1, 1, <<>>), Der(<<3>>, 2, 0, <<>>),
                  Eff(<<4>>, <<>>) >>,
     lists |-> << <<4, 5>> >>, vals |-> {0, 2}, drops |-> {}, args |-> FALSE,
     early |-> FALSE, handlers |-> AllHandlers]

\* s, justCalc = s, enterLoop = s + enterLoop() + justCalc(), a dynamic derived
\* reading a static derived declared over it, and a dynamic derived reading itself
ProgLoop ==
    [nodes |-> << Sig(1), Der(<<1>>, 1, 0, <<>>), Der(<<1>>, 1, 0, <<Rd(3), Rd(2)>>),
                  DynDer(1, 0, <<Rd(5)>>), Der(<<4>>, 1, 0, <<>>),
                  DynDer(1, 0, <<Rd(1), Rd(6)>>) >>,
     lists |-> << <<2, 3>> >>, vals |-> {0, 2}, drops |-> {}, args |-> FALSE,
     early |-> FALSE, handlers |-> AllHandlers]

\* s, t, justCalc = t, and effects over s whose actions read t and justCalc
ProgEffectRead ==
    [nodes |-> << Sig(1), Sig(2), Der(<<2>>, 1, 0, <<>>),
                  Eff(<<1>>, <<Rd(2)>>), Eff(<<1>>, <<Rd(3)>>) >>,
     lists |-> << <<3, 4, 5>> >>, vals |-> {0, 1}, drops |-> {}, args |-> FALSE,
     early |-> FALSE, handlers |-> AllHandlers]

\* s, justCalc = s, enterGet = s + s() and enterCalc = s + justCalc()
ProgDerivedRead ==
    [nodes |-> << Sig(1), Der(<<1>>, 1, 0, <<>>), Der(<<1>>, 1, 0, <<Rd(1)>>),
                  Der(<<1>>, 1, 0, <<Rd(2)>>) >>,
     lists |-> << <<3, 4>> >>, vals |-> {0, 1, 2}, drops |-> {}, args |-> FALSE,
     early |-> FALSE, handlers |-> AllHandlers]

\* sourceA, justCalcA = sourceA + 1, enterSetB writing sourceB := justCalcA,
\* sourceB, justCalcB = sourceB + 2, enterSetA writing sourceA := justCalcB; the
\* client only pumps the effects and calls the deriveds
ProgFeedback ==
    [nodes |-> << Sig(1), Der(<<1>>, 1, 1, <<>>), Eff(<<2>>, <<Wr(4, 0)>>),
                  Sig(1), Der(<<4>>, 1, 2, <<>>), Eff(<<5>>, <<Wr(1, 0)>>) >>,
     lists |-> << <<3, 6>> >>, vals |-> {}, drops |-> {}, args |-> FALSE,
     early |-> FALSE, handlers |-> {"Manual"}]

\* the same feedback loop with both sources constructed first, under every
\* handler, and a client that also writes sourceA
ProgFeedbackAuto ==
    [nodes |-> << Sig(1), Sig(1), Der(<<1>>, 1, 1, <<>>), Eff(<<3>>, <<Wr(2, 0)>>),
                  Der(<<2>>, 1, 2, <<>>), Eff(<<5>>, <<Wr(1, 0)>>) >>,
     lists |-> << <<4, 6>> >>, vals |-> {0}, drops |-> {}, args |-> FALSE,
     early |-> FALSE, handlers |-> AllHandlers]

\* s, an effect over s, d = s + 1 constructed after it, and an effect over d
ProgOrder ==
    [nodes |-> << Sig(1), Eff(<<1>>, <<>>), Der(<<1>>, 1, 1, <<>>), Eff(<<3>>, <<>>) >>,
     lists |-> << <<2, 3, 4>> >>, vals |-> {0, 2}, drops |-> {}, args |-> FALSE,
     early |-> TRUE, handlers |-> AllHandlers]

\* s, t and two layers of pure deriveds over them, once with declared dependencies
\* (a = s + t, b = 2 * a + 1) and once with dependencies read in the calculation
ProgLayers ==
    [nodes |-> << Sig(1), Sig(1), Der(<<1, 2>>, 1, 0, <<>>), Der(<<3>>, 2, 1, <<>>),
                  DynDer(1, 0, <<Rd(1), Rd(2)>>), DynDer(2, 1, <<Rd(5)>>) >>,
     lists |-> << <<3, 4, 5, 6>> >>, vals |-> {2}, drops |-> {}, args |-> FALSE,
     early |-> FALSE, handlers |-> AllHandlers]

\* c, t, and a derived and an effect that read c and, unless it is 0, t as well:
\* derived(() => { const x = c(); return x ? x + t() : x; })
ProgSwitch ==
    [nodes |-> << Sig(1), Sig(1), DynDer(1, 0, <<Rd(1), RdIf(2)>>),
                  DynEff(<<Rd(1), RdIf(2)>>) >>,
     lists |-> << <<3, 4>> >>, vals |-> {0, 2}, drops |-> {}, args |-> FALSE,
     early |-> FALSE, handlers |-> AllHandlers]

\* s, a derived over s with an initial value, one without, and an effect over s;
\* the client brackets calls with suspend() and resume()
ProgSuspend ==
    [nodes |-> << Sig(1), DerInit(<<1>>, 1, 0, 3), Der(<<1>>, 1, 0, <<>>), Eff(<<1>>, <<>>) >>,
     lists |-> << <<2, 3, 4>> >>, vals |-> {0, 2}, drops |-> {}, args |-> TRUE,
     early |-> FALSE, handlers |-> {"Manual"}]

\* s and an effect over s whose action writes s + 1 to s; t, a derived over t
\* that is always 2, and an effect over the derived whose action writes it to t:
\* effect(s, x => s(x + 1)); a = derived(t, x => 2); effect(a, x => t(x))
ProgSelfWrite ==
    [nodes |-> << Sig(1), Eff(<<1>>, <<Wr(1, 1)>>),
                  Sig(1), Der(<<3>>, 0, 2, <<>>), Eff(<<4>>, <<Wr(3, 0)>>) >>,
     lists |-> << <<2, 4, 5>> >>, vals |-> {0, 2}, drops |-> {}, args |-> FALSE,
     early |-> FALSE, handlers |-> AllHandlers]

\* s, a = 2 * s, an effect over a, and a derived over s whose calculation calls
\* modify(s, ...)
ProgModify ==
    [nodes |-> << Sig(1), Der(<<1>>, 2, 0, <<>>), Eff(<<2>>, <<>>),
                  Der(<<1>>, 1, 0, <<Md(1, Bump)>>) >>,
     lists |-> << <<2, 3>> >>, vals |-> {2}, drops |-> {}, args |-> FALSE,
     early |-> FALSE, handlers |-> AllHandlers]

\* s, a = s + 1, b = 2 * a, and a derived that reads b in its calculation:
\* derived(() => b())
ProgNested ==
    [nodes |-> << Sig(1), Der(<<1>>, 1, 1, <<>>), Der(<<2>>, 2, 0, <<>>),
                  DynDer(1, 0, <<Rd(3)>>) >>,
     lists |-> << <<4>> >>, vals |-> {2}, drops |-> {}, args |-> FALSE,
     early |-> FALSE, handlers |-> AllHandlers]

\* the programs whose client calls modify
Modifiers == {ProgModify}

Programs ==
    << ProgChain, ProgTransitive, ProgDiamond, ProgDiamondEffects, ProgPermissions,
       ProgRelay, ProgFacade, ProgUnrelated, ProgLoop,
       ProgEffectRead, ProgDerivedRead, ProgFeedback, ProgFeedbackAuto,
       ProgOrder, ProgLayers, ProgSwitch, ProgSuspend, ProgSelfWrite,
       ProgModify, ProgNested >>

VARIABLES
    prog,       \* the client program, one of Programs
    handler,    \* execution.handler
    created,    \* number of nodes constructed so far (nextId's seqId)
    seqN,       \* the version clock
    value,      \* SignalNode._value / DerivedNode._value
    current,    \* Node._current
    checked,    \* DependentNode.checked
    dirty,      \* DependentNode._dirty
    dropped,    \* DependentNode._dropped
    visited,    \* DependentNode.visited
    inMap,      \* Node._in
    outMap,     \* Node._out
    depth,      \* nesting counter of enter / exit
    processing, \* flag of exit
    handles,    \* pending notifications of enter / handle / exit
    track,      \* call tracking state
    dq,         \* the Delayed handler's map of deriveds
    eq,         \* the Delayed handler's map of effects
    seen,       \* per effect: the sum its last action run worked out
    since,      \* per node: signals written since its callback last started
    after,      \* per node: signals written since its callback last returned
    okRan,      \* per node: its callback's last run returned normally
    suspended,  \* suspend() is in force
    lastOp,     \* the top-level call made last and what it did
    dependents, \* a node's array of weak references to dependents (signal.ts)
    derefIn,    \* that array as it was when it was last traversed
    derefCalls  \* the callbacks the last traversal made, in order

vars ==
    << prog, handler, created, seqN, value, current, checked, dirty, dropped, visited,
       inMap, outMap, depth, processing, handles, track, dq, eq, seen, since, after,
       okRan, suspended,
       lastOp, dependents, derefIn, derefCalls >>

derefVars == << dependents, derefIn, derefCalls >>

engineVars ==
    << prog, handler, created, seqN, value, current, checked, dirty, dropped, visited,
       inMap, outMap, depth, processing, handles, track, dq, eq, seen, since, after,
       okRan, suspended, lastOp >>

Prog == prog
NodeIds == 1 .. Len(Prog.nodes)
Node(n) == Prog.nodes[n]
IsSignal(n) == Node(n).kind = "signal"
IsDerived(n) == Node(n).kind = "derived"
IsEffect(n) == Node(n).kind = "effect"
Exists(st, n) == n <= st.created

\* let track: CallTrackState = { deps: undefined, nocall: false, nowrite: false }
\* (rec says whether deps is an array; deps holds its elements)
Track0 == [rec |-> FALSE, deps |-> <<>>, nocall |-> FALSE, nowrite |-> FALSE]

NoError == "none"
ReentryErrors == {"ERR_CALL", "ERR_WRITE", "ERR_LOOP"}

Throw(st, e) == [st EXCEPT !.err = e]
Ret(st, v) == [st EXCEPT !.ret = v]

\* track.deps?.push(this)
Push(st, n) == IF st.track.rec THEN [st EXCEPT !.track.deps = Append(@, n)] ELSE st

\* function enter()
Enter(st) == [st EXCEPT !.depth = @ + 1]

\* a flag that is never found set
ProcessingNever(st) == FALSE
\* exit: `processing`
Processing(st) == st.processing

\* function handle(n, s)
Handle(st, n, s) == [st EXCEPT !.handles = Append(@, <<n, s>>)]

\* a clock that does not advance
NextNStays(st) == st
\* const nextN = () => (++seqN)
NextN(st) == [st EXCEPT !.seqN = @ + 1]

\* a link that forgets the reverse edge
LinkOneWay(st, source, target) == [st EXCEPT !.inMap[target] = MapSet(@, source)]
\* Node.link
Link(st, source, target) ==
    [st EXCEPT !.inMap[target] = MapSet(@, source),
               !.outMap[source] = MapSet(@, target)]

\* an unlink that keeps the edge
UnlinkKeeps(st, source, target) == st
\* an unlink that forgets the reverse edge
UnlinkOneWay(st, source, target) == [st EXCEPT !.inMap[target] = MapDelete(@, source)]
\* Node.unlink
Unlink(st, source, target) ==
    [st EXCEPT !.inMap[target] = MapDelete(@, source),
               !.outMap[source] = MapDelete(@, target)]

\* if (dep.current > this.current) this.current = dep.current
RaiseCurrent(st, n, dep) ==
    IF st.current[dep] > st.current[n] THEN [st EXCEPT !.current[n] = st.current[dep]]
    ELSE st

RECURSIVE UnlinkAll(_, _, _)
UnlinkAll(st, n, ds) ==
    IF ds = <<>> THEN st ELSE UnlinkAll(Unlink(st, Head(ds), n), n, Tail(ds))

RECURSIVE LinkAll(_, _, _, _)
LinkAll(st, n, ds, relink) ==
    IF ds = <<>> THEN st
    ELSE LinkAll(RaiseCurrent(IF relink THEN Link(st, Head(ds), n) ELSE st, n, Head(ds)),
                 n, Tail(ds), relink)

\* DependentNode.init
RECURSIVE InitLinks(_, _, _)
InitLinks(st, n, ds) ==
    IF ds = <<>> THEN st ELSE InitLinks(Link(st, Head(ds), n), n, Tail(ds))

\* DependentNode.update: if (notify) handle(this, this.current)
UpdateNotify(st, n, notify) == IF notify THEN Handle(st, n, st.current[n]) ELSE st

\* DependentNode.update
Update(st, n, ds, relink, notify) ==
    UpdateNotify(LinkAll(IF relink THEN UnlinkAll(st, n, st.inMap[n]) ELSE st, n, ds, relink),
                 n, notify)

\* an alert that also marks a node whose stamp equals the notified one
AlertDirtySame(cur, nodeCurrent) == cur >= nodeCurrent
\* DependentNode.alert: the new value of _dirty
AlertDirty(cur, nodeCurrent) == cur > nodeCurrent

\* a comparison that never finds a node outdated
OutdatedNever(check, chk) == FALSE
\* DerivedNode.value / EffectNode.fun: `check > this.checked`
Outdated(check, chk) == check > chk

\* FixedDerivedNode.do / DynamicDerivedNode.do: `!Object.is(val, this.value)`, where
\* this.value is the method, not the cached value
NotifyAfterCalc(val) == ~ObjectIs(val, ValueMethod)

\* a node of either flavour that gathers what its callback reads and links to it
RelinksAlways(n) == TRUE
\* DynamicDerivedNode.do / DynamicEffectNode.do gather the nodes the callback reads
\* (track.deps is an array) and relink to them; the Fixed flavours do not
Relinks(n) == ~Node(n).fixed

\* a getter that never finds a node dropped
IsDroppedNever(st, n) == FALSE
\* DependentNode: get dropped()
IsDropped(st, n) == st.dropped[n]

\* a guard that finds a node being visited only from the third nested call on
LoopDetectedLate(st, n) == st.visited[n] /\ st.depth > 2
\* DerivedNode.value / EffectNode.fun: `this.visited`
LoopDetected(st, n) == st.visited[n]

\* a guard that takes the flag set for every callback for the one set for calculations
WriteDeniedInCallbacks(tr) == tr.nocall
\* a guard that lets every write through
WriteDeniedNever(tr) == FALSE
\* SignalNode.wfun: `track.nowrite`
WriteDenied(tr) == tr.nowrite

\* a guard that lets every effect call through
CallDeniedNever(tr) == FALSE
\* EffectNode.fun: `track.nocall`
CallDenied(tr) == tr.nocall

(***************************************************************************)
(* Bookkeeping that is not part of the library (history of one top-level    *)
(* call): ran lists the callbacks started, in order; again the nodes whose   *)
(* callback started after an earlier run of it had returned; wrote the      *)
(* signals whose value was changed; spur the nodes whose callback started although  *)
(* its previous run had returned and no signal it depends on was written    *)
(* since; notes the calls of execution.handler.changed made by notify;      *)
(* tries the writes and effect calls made by callbacks, each with the       *)
(* exception it ended with, whether it left every signal and the clock as   *)
(* they were, and the numbers of callbacks and of manipulators started       *)
(* inside it; busy the nodes                                                 *)
(* whose recomputation (the call of do) is under way; loops the              *)
(* nodes whose handle was called from a callback while they were busy;       *)
(* reads the reads of signals and deriveds made by callbacks; calls the      *)
(* handles called by a handler or by update, in order; deep the largest      *)
(* value of the enter / exit counter; active the number of calls of          *)
(* execution.handler.changed made by notify that have not returned, and      *)
(* nest its largest value; reran the nodes whose callback started while a    *)
(* callback of the same node was in progress; manip the signals whose value  *)
(* a manipulator of modify was run on, in order.                             *)
(***************************************************************************)
\* the value nodes a dependent node reads: its declared dependencies, or for
\* the dynamic flavour the ones linked by its last run
DepsOf(st, n) == IF Node(n).fixed THEN Range(Node(n).deps) ELSE Range(st.inMap[n])

\* the signals a node depends on, through deriveds
RECURSIVE SourcesFrom(_, _, _)
SourcesFrom(st, todo, done) ==
    IF todo = {} THEN {n \in done : IsSignal(n)}
    ELSE LET n == CHOOSE x \in todo : TRUE
             next == IF IsSignal(n) THEN {} ELSE DepsOf(st, n) \ (done \cup {n})
         IN  SourcesFrom(st, (todo \ {n}) \cup next, done \cup {n})

Sources(st, n) == SourcesFrom(st, {n}, {})

NoteWrite(st, n) ==
    [st EXCEPT !.wrote = @ \cup {n},
               !.since = [m \in DOMAIN st.since |-> st.since[m] \cup {n}],
               !.after = [m \in DOMAIN st.after |-> st.after[m] \cup {n}]]

SignalsAsIn(st, s1) ==
    /\ s1.seqN = st.seqN
    /\ \A m \in DOMAIN st.value :
          IsSignal(m) => s1.value[m] = st.value[m] /\ s1.current[m] = st.current[m]

NoteTry(st, s1, n, o) ==
    [s1 EXCEPT !.tries = Append(@, [by |-> n, op |-> o.op, node |-> o.node,
                                     err |-> s1.err, same |-> SignalsAsIn(st, s1),
                                     runs |-> Len(s1.ran) - Len(st.ran),
                                     manip |-> Len(s1.manip) - Len(st.manip),
                                     old |-> st.value[o.node],
                                     val |-> Add(st.acc, o.k)])]

\* node n starts / ends its recomputation
NoteBusy(st, n) == [st EXCEPT !.busy = @ \cup {n}]
NoteStart(st, n) == IF st.visited[n] THEN [st EXCEPT !.reran = @ \cup {n}] ELSE st
NoteDone(st, prev) == [st EXCEPT !.busy = prev]

\* a handle of node n is called from a callback
NoteEntry(st, n) == IF n \in st.busy THEN [st EXCEPT !.loops = @ \cup {n}] ELSE st

\* the callback of node n read node o.node: the exception the read ended with,
\* what it returned, and the value the node read holds
NoteRead(st, s1, n, o) ==
    [s1 EXCEPT !.reads = Append(@, [by |-> n, node |-> o.node, err |-> s1.err,
                                     ret |-> s1.ret,
                                     val |-> IF IsSignal(o.node) THEN st.value[o.node]
                                             ELSE s1.value[o.node]])]

\* a handler or update calls the handle of node n
NoteCall(st, n) == [st EXCEPT !.calls = Append(@, n)]

\* enter() was called
NoteDepth(st) == [st EXCEPT !.deep = IF st.depth > @ THEN st.depth ELSE @]

\* notify calls execution.handler.changed / the call returned or threw
NoteChanged(st) ==
    [st EXCEPT !.active = @ + 1, !.nest = IF st.active + 1 > @ THEN st.active + 1 ELSE @]
NoteReturned(st) == [st EXCEPT !.active = @ - 1]

NoteRun(st, n, acc) ==
    [st EXCEPT !.fuel = @ - 1,
               !.ran = Append(@, n),
               !.again = IF st.okRan[n] THEN @ \cup {n} ELSE @,
               !.spur = IF st.okRan[n] /\ st.since[n] \cap Sources(st, n) = {}
                        THEN @ \cup {n} ELSE @,
               !.since[n] = {},
               !.okRan[n] = FALSE,
               !.seen[n] = IF IsEffect(n) THEN acc ELSE @]

(***************************************************************************)
(* The engine.  Every operator takes the state before a call and gives the  *)
(* state after it; st.ret is the value the call returned and st.err the     *)
(* exception it threw.  The handles a callback or a handler calls lead back  *)
(* into the engine: those calls go through Call, which is defined last.      *)
(***************************************************************************)
RECURSIVE Call(_, _, _, _)

\* for (const x of items) x()
RECURSIVE CallEach(_, _)
CallEach(st, xs) ==
    IF st.err # NoError \/ xs = <<>> THEN st
    ELSE CallEach(Call(NoteCall(st, Head(xs)),
                       IF IsEffect(Head(xs)) THEN "EffectFun" ELSE "DerivedFun",
                       Head(xs), Undefined),
                  Tail(xs))

\* d.set(x.id, x) for every x
RECURSIVE SetEach(_, _)
SetEach(m, xs) == IF xs = <<>> THEN m ELSE SetEach(MapSet(m, Head(xs)), Tail(xs))

\* a changed() that runs the effects first
ImmediateChangedEffectsFirst(st, ds, es) == CallEach(CallEach(st, es), ds)
\* a changed() that runs what it is given, as Immediate.changed does
ManualChangedRuns(st, ds, es) == CallEach(CallEach(st, ds), es)
\* Manual.changed
ManualChanged(st, ds, es) == st

\* Immediate.changed
ImmediateChanged(st, ds, es) == CallEach(CallEach(st, ds), es)

\* a changed() that runs what it is given instead of recording it
DelayedChangedRuns(st, ds, es) == CallEach(CallEach(st, ds), es)
\* Delayed.changed
DelayedChanged(st, ds, es) ==
    [st EXCEPT !.dq = SetEach(@, ds), !.eq = SetEach(@, es)]

\* execution.handler.changed(_, deriveds, effects)
Changed(st, ds, es) ==
    CASE handler = "Manual" -> ManualChanged(st, ds, es)
      [] handler = "Immediate" -> ImmediateChanged(st, ds, es)
      [] handler = "Delayed" -> DelayedChanged(st, ds, es)

\* an alert that lets every derived join the traverse list, flipped or not
NotifyAlertAlways(w, d, nd, first) ==
    [w EXCEPT !.st.dirty[d] = nd,
              !.trav = IF IsDerived(d) THEN Append(@, d) ELSE @,
              !.ds = IF first /\ IsDerived(d) THEN Append(@, d) ELSE @,
              !.es = IF first /\ IsEffect(d) THEN Append(@, d) ELSE @]
\* Node.notify, one dependent d of a traversed source: d.alert(current), and d joins
\* the traverse list if it flipped and the handler's lists if the source is the first
NotifyAlert(w, d, nd, first) ==
    [w EXCEPT !.st.dirty[d] = nd,
              !.trav = IF nd # w.st.dirty[d] /\ IsDerived(d) THEN Append(@, d) ELSE @,
              !.ds = IF first /\ IsDerived(d) THEN Append(@, d) ELSE @,
              !.es = IF first /\ IsEffect(d) THEN Append(@, d) ELSE @]

\* Node.notify, the loop over source._out of one traversed source: w is the record
\* of the state, the traverse list and the lists gathered for the handler
RECURSIVE NotifyScan(_, _, _, _, _)
NotifyScan(w, source, keys, first, cur) ==
    IF keys = <<>> THEN w
    ELSE IF IsDropped(w.st, Head(keys))
    THEN NotifyScan([w EXCEPT !.st.outMap[source] = MapDelete(@, Head(keys))],
                    source, Tail(keys), first, cur)
    ELSE NotifyScan(NotifyAlert(w, Head(keys),
                                AlertDirty(cur, w.st.current[Head(keys)]), first),
                    source, Tail(keys), first, cur)

\* Node.notify, the loop over traverse
RECURSIVE NotifyWalk(_, _, _)
NotifyWalk(w, i, cur) ==
    IF i > Len(w.trav) THEN w
    ELSE NotifyWalk(NotifyScan(w, w.trav[i], w.st.outMap[w.trav[i]], i = 1, cur), i + 1, cur)

\* the handler returned: the caller's call tracking state is in force again
Untrack(st, prev) == [st EXCEPT !.track = prev]

\* Node.notify, the call of execution.handler.changed
NotifyChanged(w, n) ==
    NoteReturned(
        Untrack(Changed(NoteChanged([w.st EXCEPT
                                       !.track = Track0,
                                       !.notes = Append(@, [node |-> n, ds |-> w.ds,
                                                            es |-> w.es,
                                                            trav |-> w.trav])]),
                        w.ds, w.es),
                w.st.track))

\* Node.notify
Notify(st, n, cur) ==
    NotifyChanged(NotifyWalk([st |-> st, trav |-> <<n>>, ds |-> <<>>, es |-> <<>>], 1, cur), n)

\* for (let i = 0; i < handles.length; i++) { const [n, s] = handles[i]; n.notify(s); }
RECURSIVE ProcessHandles(_, _)
ProcessHandles(st, i) ==
    IF st.err # NoError \/ i > Len(st.handles) THEN st
    ELSE ProcessHandles(Notify(st, st.handles[i][1], st.handles[i][2]), i + 1)

\* exit: handles.length = 0 (skipped by an exception) and finally processing = false
ExitProcessed(st) ==
    [st EXCEPT !.handles = IF st.err = NoError THEN <<>> ELSE @, !.processing = FALSE]

\* function exit()
Exit(st) ==
    IF st.depth = 1 /\ ~Processing(st)
    THEN ExitProcessed(ProcessHandles([st EXCEPT !.depth = 0, !.processing = TRUE], 1))
    ELSE [st EXCEPT !.depth = @ - 1]

\* an exception e was on its way when a finally block ran, leaving state r
Rethrow(r, e) == IF r.err = NoError THEN [r EXCEPT !.err = e] ELSE r

\* a `finally { exit() }`: exit runs although an exception is on its way, and an
\* exception thrown by exit replaces it
ExitFinally(st) == Rethrow(Exit([st EXCEPT !.err = NoError]), st.err)

\* SignalNode.value / DerivedNode.value, as called by FixedDerivedNode.do and
\* FixedEffectNode.do on a declared dependency
ValueOf(st, n, check) ==
    IF IsSignal(n) THEN Ret(st, st.value[n]) ELSE Call(st, "DerivedValue", n, check)

\* this.deps.map(x => x.value(check)): st.vals collects the values
RECURSIVE MapValues(_, _, _, _)
MapValuesNext(st, ds, check, acc) == MapValues(st, ds, check, Append(acc, st.ret))

MapValues(st, ds, check, acc) ==
    IF st.err # NoError THEN st
    ELSE IF ds = <<>> THEN [st EXCEPT !.vals = acc]
    ELSE MapValuesNext(ValueOf(st, Head(ds), check), Tail(ds), check, acc)

\* a callback goes on after a handle it called returned: it has its running sum,
\* with the value it read
AfterCall(st, acc) == IF st.err = NoError THEN [st EXCEPT !.acc = acc] ELSE st
AfterRead(st, acc) == IF st.err = NoError THEN [st EXCEPT !.acc = Add(acc, st.ret)] ELSE st

\* the facade a step calls, and the argument it passes
Callee(o) == CASE o.op = "write" -> "Wfun" [] o.op = "call" -> "EffectFun" [] o.op = "modify" -> "Mfun"
Argument(o, acc) == CASE o.op = "write" -> Add(acc, o.k) [] o.op = "call" -> Undefined [] o.op = "modify" -> o.k

\* one step of the callback of node n
RunOp(st, n, o) ==
    IF o.op = "readif" /\ st.acc = 0 THEN st
    ELSE IF ~Exists(st, o.node) THEN Throw(st, "ReferenceError")
    ELSE IF o.op \in {"write", "call", "modify"}
    THEN AfterCall(NoteTry(st, Call(st, Callee(o), o.node, Argument(o, st.acc)), n, o), st.acc)
    ELSE AfterRead(NoteRead(st, Call(st, IF IsSignal(o.node) THEN "Wfun" ELSE "DerivedFun",
                                     o.node, Undefined),
                            n, o),
                   st.acc)

\* the steps of a callback, from step i on; st.acc is the running sum
RECURSIVE RunOps(_, _, _, _)
RunOps(st, n, ops, i) ==
    IF st.err # NoError \/ i > Len(ops) THEN st
    ELSE RunOps(RunOp(st, n, ops[i]), n, ops, i + 1)

\* the callback returns: its result, for a derived
CbReturn(st, n) ==
    IF st.err # NoError THEN st
    ELSE [st EXCEPT !.ret = Lin(Node(n).mul, st.acc, Node(n).add),
                    !.okRan[n] = TRUE, !.after[n] = {},
                    !.seen[n] = IF IsEffect(n) THEN st.acc ELSE @]

\* the callback of node n: cb(values) / cb()
RunCb(st, n, vals) ==
    IF st.fuel = 0 THEN Throw(st, "OutOfFuel")
    ELSE CbReturn(RunOps([NoteRun(st, n, SumSeq(vals)) EXCEPT !.acc = SumSeq(vals)],
                         n, Node(n).ops, 1),
                  n)

\* do, after the callback: `this._value = ...`, the finally block, this.update(...)
DoUpdate(st, n, val, prev) ==
    IF st.err # NoError THEN [st EXCEPT !.visited[n] = FALSE, !.track = prev]
    ELSE Update([st EXCEPT !.value[n] = IF IsDerived(n) THEN st.ret ELSE @,
                           !.visited[n] = FALSE,
                           !.track = prev],
                n, IF Relinks(n) THEN st.track.deps ELSE Node(n).deps,
                Relinks(n), IsDerived(n) /\ NotifyAfterCalc(val))

\* do, from `const val = this._value` on
DoCb(st, n) ==
    IF st.err # NoError THEN st
    ELSE DoUpdate(RunCb([NoteStart(st, n) EXCEPT !.track = [rec |-> Relinks(n), deps |-> <<>>,
                                              nocall |-> TRUE, nowrite |-> IsDerived(n)],
                                   !.visited[n] = TRUE],
                        n, st.vals),
                  n, st.value[n], st.track)

\* FixedDerivedNode.do / DynamicDerivedNode.do / FixedEffectNode.do / DynamicEffectNode.do
Do(st, n, check) ==
    DoCb(IF Node(n).fixed THEN MapValues(st, Node(n).deps, check, <<>>)
         ELSE [st EXCEPT !.vals = <<>>],
         n)

\* this._dirty = false, reached when do returned
Settle(st, n) == IF st.err = NoError THEN [st EXCEPT !.dirty[n] = FALSE] ELSE st

\* try { enter(); this.do(check); this._dirty = false; } finally { exit(); }
DoGuarded(st, n, check) ==
    ExitFinally(Settle(NoteDone(Do(NoteBusy(NoteDepth(Enter(st)), n), n, check),
                                st.busy),
                       n))

\* this.checked = check, reached when nothing was thrown
Stamp(st, n, check) == IF st.err = NoError THEN [st EXCEPT !.checked[n] = check] ELSE st

\* return this._value
RetValue(st, n) == IF st.err = NoError THEN Ret(st, st.value[n]) ELSE st

\* DerivedNode.value
DerivedValue(st, n, check) ==
    IF LoopDetected(st, n) THEN Throw(st, "ERR_LOOP")
    ELSE IF ~IsDropped(st, n) /\ Outdated(check, st.checked[n])
    THEN RetValue(Stamp(IF st.dirty[n] THEN DoGuarded(Push(st, n), n, check)
                        ELSE Push(st, n),
                        n, check),
                  n)
    ELSE RetValue(Push(st, n), n)

\* SignalNode.rfun: the readonly facade
Rfun(st, n, v) ==
    IF Truthy(v) THEN Throw(st, "TypeError")
    ELSE Ret(Push(st, n), st.value[n])

\* this.current = nextN()
SetCurrent(st, n) == [st EXCEPT !.current[n] = st.seqN]

\* handle(this, this.current)
HandleCurrent(st, n) == Handle(st, n, st.current[n])

\* SignalNode.wfun, the write of a new value: enter(); this._value = value;
\* this.current = nextN(); handle(this, this.current); exit()
WriteNew(st, n, v) ==
    Ret(Exit(HandleCurrent(NoteWrite(SetCurrent(NextN([NoteDepth(Enter(st)) EXCEPT
                                                         !.value[n] = v]),
                                                n),
                                     n),
                           n)),
        Undefined)

\* a facade that compares the values before it looks at the permission
WfunSameFirst(st, n, v) ==
    IF IsNullish(v) THEN Ret(Push(st, n), st.value[n])
    ELSE IF ObjectIs(st.value[n], v) THEN Ret(st, Undefined)
    ELSE IF WriteDenied(st.track) THEN Throw(st, "ERR_WRITE")
    ELSE WriteNew(st, n, v)
\* SignalNode.wfun: the writable facade
Wfun(st, n, v) ==
    IF IsNullish(v) THEN Ret(Push(st, n), st.value[n])
    ELSE IF WriteDenied(st.track) THEN Throw(st, "ERR_WRITE")
    ELSE IF ObjectIs(st.value[n], v) THEN Ret(st, Undefined)
    ELSE WriteNew(st, n, v)

\* manipulate(this._value): the manipulator changes the stored value in place
Manipulate(st, n, m) ==
    IF m = Fail THEN Throw(st, "Error")
    ELSE [st EXCEPT !.value[n] = Add(@, m), !.manip = Append(@, n)]

\* SignalNode.mfun, after manipulate: this.current = nextN();
\* handle(this, this.current); exit()  (not reached when the manipulator threw)
Modified(st, n) ==
    IF st.err # NoError THEN st
    ELSE Ret(Exit(HandleCurrent(NoteWrite(SetCurrent(NextN(st), n), n), n)), Undefined)

\* SignalNode.mfun
Mfun(st, n, m) ==
    IF WriteDenied(st.track) THEN Throw(st, "ERR_WRITE")
    ELSE Modified(Manipulate(NoteDepth(Enter(st)), n, m), n)

\* DerivedNode.fun: the derived facade
DerivedFun(st, n, v) ==
    IF Truthy(v) THEN Throw(st, "TypeError")
    ELSE DerivedValue(st, n, st.seqN)

\* EffectNode.fun, returning
RetVoid(st) == IF st.err = NoError THEN Ret(st, Undefined) ELSE st

\* EffectNode.fun: the effect facade
EffectFun(st, n) ==
    IF LoopDetected(st, n) THEN Throw(st, "ERR_LOOP")
    ELSE IF CallDenied(st.track) THEN Throw(st, "ERR_CALL")
    ELSE IF ~IsDropped(st, n) /\ Outdated(st.seqN, st.checked[n])
    THEN RetVoid(Stamp(IF st.dirty[n] THEN DoGuarded(st, n, st.seqN) ELSE st, n, st.seqN))
    ELSE Ret(st, Undefined)

\* a call of the method or handle f of node n with the argument v
Call(st, f, n, v) ==
    CASE f = "DerivedValue" -> DerivedValue(NoteEntry(st, n), n, v)
      [] f = "Wfun" -> Wfun(st, n, v)
      [] f = "Mfun" -> Mfun(st, n, v)
      [] f = "DerivedFun" -> DerivedFun(NoteEntry(st, n), n, v)
      [] f = "EffectFun" -> EffectFun(NoteEntry(st, n), n)

\* Manual.update(items)
ManualUpdate(st, items) == CallEach(st, items)

\* return [deriveds.values(), effects.values()]: reached when no call threw
ReturnLists(s, ds, es) ==
    IF s.err = NoError THEN [s EXCEPT !.drained = <<ds, es>>] ELSE s

\* const deriveds = d; const effects = e; d = new Map(); e = new Map()
DelayedSwap(st) == [st EXCEPT !.dq = <<>>, !.eq = <<>>]

\* Delayed.update()
DelayedUpdate(st) ==
    ReturnLists(CallEach(CallEach(DelayedSwap(st), st.dq), st.eq), st.dq, st.eq)

\* update(...args)
UpdateCall(st, items) ==
    CASE handler = "Manual" -> ManualUpdate(st, items)
      [] handler = "Delayed" -> DelayedUpdate(st)
      [] OTHER -> Throw(st, "SignalError")

\* SignalNode.signal(initial): new SignalNode(initial)
NewSignal(st, n) ==
    SetCurrent(NextN([st EXCEPT !.created = n, !.value[n] = Node(n).init]), n)

\* FixedDerivedNode.derived / DynamicDerivedNode.derived / FixedEffectNode.effect /
\* DynamicEffectNode.effect: the constructor, then execution.handler.changed
NewDependent(st, n) ==
    Changed(InitLinks([st EXCEPT !.created = n], n,
                      IF Node(n).fixed THEN Node(n).deps ELSE <<>>),
            IF IsDerived(n) THEN <<n>> ELSE <<>>,
            IF IsDerived(n) THEN <<>> ELSE <<n>>)

\* DependentNode.drop
DropNode(st, n) == [st EXCEPT !.dropped[n] = TRUE]


(***************************************************************************)
(* suspend() / resume().  Their implementation is not part of the sources;  *)
(* the operators below follow the description of the lifecycle methods:     *)
(* while suspended a derived that has a value (it ran, or it was given an   *)
(* initial value) is read frozen, anything else that would have to run      *)
(* throws SuspendError.                                                     *)
(***************************************************************************)
Suspends == {ProgSuspend}

Initialized(st, n) == st.okRan[n] \/ Node(n).init # Undefined

Frozen(st, n) == IF st.okRan[n] THEN st.value[n] ELSE Node(n).init

\* a read that runs the calculation although suspended
SuspendedReadRuns(st, n) == DerivedValue(st, n, st.seqN)
\* reading a derived while suspended
SuspendedRead(st, n) ==
    IF Initialized(st, n) THEN Ret(st, Frozen(st, n)) ELSE Throw(st, "SuspendError")

\* invoking an effect while suspended
SuspendedAct(st, n) == Throw(st, "SuspendError")

(***************************************************************************)
(* The state machine: one action per top-level call of a client.           *)
(***************************************************************************)
\* the engine state at the start of a top-level call
Cur ==
    [created |-> created, seqN |-> seqN, value |-> value, current |-> current,
     checked |-> checked, dirty |-> dirty, dropped |-> dropped, visited |-> visited,
     inMap |-> inMap, outMap |-> outMap, depth |-> depth, processing |-> processing,
     handles |-> handles, track |-> track, dq |-> dq, eq |-> eq, seen |-> seen,
     since |-> since, after |-> after, okRan |-> okRan,
     err |-> NoError, ret |-> Undefined, vals |-> <<>>, acc |-> 0, fuel |-> MaxFuel,
     ran |-> <<>>, again |-> {}, wrote |-> {}, spur |-> {}, notes |-> <<>>,
     tries |-> <<>>, busy |-> {}, loops |-> {}, reads |-> <<>>,
     calls |-> <<>>, deep |-> 0, active |-> 0, nest |-> 0, drained |-> << <<>>, <<>> >>,
     reran |-> {}, manip |-> <<>>]

\* the state the call leaves behind, and the record of the call
Commit(st, op, n, nargs, arg, items) ==
    /\ created' = st.created
    /\ seqN' = st.seqN
    /\ value' = st.value
    /\ current' = st.current
    /\ checked' = st.checked
    /\ dirty' = st.dirty
    /\ dropped' = st.dropped
    /\ visited' = st.visited
    /\ inMap' = st.inMap
    /\ outMap' = st.outMap
    /\ depth' = st.depth
    /\ processing' = st.processing
    /\ handles' = st.handles
    /\ track' = st.track
    /\ dq' = st.dq
    /\ eq' = st.eq
    /\ seen' = st.seen
    /\ since' = st.since
    /\ after' = st.after
    /\ okRan' = st.okRan
    /\ suspended' = (IF op \in {"suspend", "resume"} THEN op = "suspend" ELSE suspended)
    /\ lastOp' = [op |-> op, node |-> n, nargs |-> nargs, arg |-> arg, items |-> items,
                  ret |-> st.ret, err |-> st.err, ran |-> st.ran, again |-> st.again,
                  wrote |-> st.wrote,
                  spur |-> st.spur, notes |-> st.notes, tries |-> st.tries,
                  loops |-> st.loops, reads |-> st.reads, calls |-> st.calls,
                  deep |-> st.deep, nest |-> st.nest, drained |-> st.drained,
                  reran |-> st.reran, manip |-> st.manip]
    /\ UNCHANGED << prog, handler >>
    /\ UNCHANGED derefVars

NumSignals == Cardinality({n \in NodeIds : IsSignal(n)})

\* a client makes a call while the clock is below its cap and no call was cut off
CanCall == seqN < NumSignals + MaxWrites /\ lastOp.err # "OutOfFuel"

\* a client uses the handles once its nodes are constructed (or before, if early)
CanUse(n) == CanCall /\ n <= created /\ (Prog.early \/ created = Len(Prog.nodes))

\* the arguments of the handle calls a client makes: none, or one argument
CallArgs(nargs, v, one) ==
    \/ nargs = 0 /\ v = Undefined
    \/ nargs = 1 /\ v \in one

InitEngine ==
    /\ prog \in {Programs[i] : i \in 1 .. Len(Programs)}
    /\ handler \in prog.handlers
    /\ created = 0
    /\ seqN = MIN_SEQ
    /\ value = [n \in NodeIds |-> Undefined]
    /\ current = [n \in NodeIds |-> MIN_SEQ]
    /\ checked = [n \in NodeIds |-> MIN_SEQ]
    /\ dirty = [n \in NodeIds |-> ~IsSignal(n)]
    /\ dropped = [n \in NodeIds |-> FALSE]
    /\ visited = [n \in NodeIds |-> FALSE]
    /\ inMap = [n \in NodeIds |-> <<>>]
    /\ outMap = [n \in NodeIds |-> <<>>]
    /\ depth = 0
    /\ processing = FALSE
    /\ handles = <<>>
    /\ track = Track0
    /\ dq = <<>>
    /\ eq = <<>>
    /\ seen = [n \in NodeIds |-> Undefined]
    /\ since = [n \in NodeIds |-> {}]
    /\ after = [n \in NodeIds |-> {}]
    /\ okRan = [n \in NodeIds |-> FALSE]
    /\ suspended = FALSE
    /\ lastOp = [op |-> "init", node |-> 0, nargs |-> 0, arg |-> Undefined, items |-> <<>>,
                 ret |-> Undefined, err |-> NoError, ran |-> <<>>, again |-> {},
                 wrote |-> {},
                 spur |-> {}, notes |-> <<>>, tries |-> <<>>, loops |-> {},
                 reads |-> <<>>, calls |-> <<>>, deep |-> 0, nest |-> 0,
                 drained |-> << <<>>, <<>> >>, reran |-> {}, manip |-> <<>>]

Init ==
    /\ InitEngine
    /\ dependents = <<>> /\ derefIn = <<>> /\ derefCalls = <<>>

\* signal(initial) / derived(...) / effect(...): the next node of the program
Construct ==
    /\ CanCall
    /\ created < Len(Prog.nodes)
    /\ LET n == created + 1
       IN  Commit(IF IsSignal(n) THEN NewSignal(Cur, n) ELSE NewDependent(Cur, n),
                  "construct", n, 0, Undefined, <<>>)

\* s() / s(v) on the writable handle of signal n
CallWritable(n, nargs, v) ==
    /\ CanUse(n) /\ IsSignal(n)
    /\ CallArgs(nargs, v, Prog.vals \cup (IF Prog.args THEN {Undefined} ELSE {}))
    /\ nargs = 0 => Prog.args
    /\ Commit(Wfun(Cur, n, v), "writable", n, nargs, v, <<>>)

\* r() / r(v) on a readonly(s) view of signal n
CallReadonly(n, nargs, v) ==
    /\ CanUse(n) /\ IsSignal(n) /\ Prog.args
    /\ CallArgs(nargs, v, Prog.vals \cup {Undefined})
    /\ Commit(Rfun(Cur, n, v), "readonly", n, nargs, v, <<>>)

\* d() / d(v) on the handle of derived n
CallDerived(n, nargs, v) ==
    /\ CanUse(n) /\ IsDerived(n)
    /\ CallArgs(nargs, v, IF Prog.args THEN Prog.vals \cup {Undefined} ELSE {})
    /\ Commit(IF suspended THEN SuspendedRead(Cur, n) ELSE DerivedFun(Cur, n, v),
              "derived", n, nargs, v, <<>>)

\* modify(s, manipulate) on signal n, by a client that uses modify
CallModify(n, m) ==
    /\ CanUse(n) /\ IsSignal(n) /\ Prog \in Modifiers
    /\ m = Fail => depth < MaxDepth
    /\ Commit(Mfun(Cur, n, m), "modify", n, 1, m, <<>>)

\* e() on the handle of effect n
CallEffect(n) ==
    /\ CanUse(n) /\ IsEffect(n)
    /\ Commit(IF suspended THEN SuspendedAct(Cur, n) ELSE EffectFun(Cur, n),
              "effect", n, 0, Undefined, <<>>)

\* update(items) / update()
UpdateItems(items) ==
    /\ ~suspended
    /\ \A i \in 1 .. Len(items) : CanUse(items[i])
    /\ Commit(UpdateCall(Cur, items), "update", 0, 0, Undefined, items)

\* suspend(), by a client that brackets its calls with suspend() and resume()
Suspend ==
    /\ CanCall /\ Prog \in Suspends /\ ~suspended
    /\ Commit(Cur, "suspend", 0, 0, Undefined, <<>>)

\* resume()
Resume ==
    /\ CanCall /\ suspended
    /\ Commit(Cur, "resume", 0, 0, Undefined, <<>>)

\* drop(effectOrDerived)
Drop(n) ==
    /\ CanUse(n) /\ n \in Prog.drops
    /\ Commit(DropNode(Cur, n), "drop", n, 0, Undefined, <<>>)

Args == Numbers \cup {Undefined}

Next ==
    \/ Construct
    \/ \E n \in NodeIds, k \in 0 .. 1, v \in Args : CallWritable(n, k, v)
    \/ \E n \in NodeIds, k \in 0 .. 1, v \in Args : CallReadonly(n, k, v)
    \/ \E n \in NodeIds, k \in 0 .. 1, v \in Args : CallDerived(n, k, v)
    \/ \E n \in NodeIds, m \in Manipulators : CallModify(n, m)
    \/ \E n \in NodeIds : CallEffect(n)
    \/ \E i \in 1 .. Len(Prog.lists) : UpdateItems(Prog.lists[i])
    \/ \E n \in NodeIds : Drop(n)
    \/ Suspend
    \/ Resume

Spec == Init /\ [][Next]_vars

(***************************************************************************)
(* The traversal of a node's array of weak references to its dependents    *)
(* (signal.ts, function deref), on its own: an entry of the array is the   *)
(* id of a live dependent, Dead for a reference whose target was           *)
(* collected, or Hole for an element removed with `delete` by drop.        *)
(***************************************************************************)
Dead == 0
Hole == Undefined

\* `!inst`, for inst = weak?.deref()
IsDead(x) == x = Dead \/ x = Hole

\* dead: const end = array.length - 1; if (i < end) array[i] = array[end];
\* array.length = end   (i counts from 1 here)
RemoveAt(array, i) ==
    SubSeq(IF i < Len(array) THEN [array EXCEPT ![i] = array[Len(array)]] ELSE array,
           1, Len(array) - 1)

\* a removal after which the loop goes on with the next index
StepBackNot(i) == i
\* one step back: i--
StepBack(i) == i - 1

\* the for loop of deref from index i on; calls are the callbacks made so far
RECURSIVE DerefFrom(_, _, _)
DerefFrom(array, i, calls) ==
    IF i > Len(array) THEN [array |-> array, calls |-> calls]
    ELSE IF IsDead(array[i]) THEN DerefFrom(RemoveAt(array, i), StepBack(i) + 1, calls)
    ELSE DerefFrom(array, i + 1, Append(calls, array[i]))

\* function deref(array, callback)
Deref(array) == DerefFrom(array, 1, <<>>)

\* the arrays a node starts with: references to live dependents
InitDeref ==
    /\ InitEngine /\ prog = ProgChain /\ handler = "Manual"
    /\ dependents \in {[i \in 1 .. n |-> i] : n \in 0 .. MaxLen}
    /\ derefIn = <<>> /\ derefCalls = <<>>

\* the garbage collector collects the dependent that entry i refers to
Collect(i) ==
    /\ i \in 1 .. Len(dependents) /\ ~IsDead(dependents[i])
    /\ dependents' = [dependents EXCEPT ![i] = Dead]
    /\ UNCHANGED << derefIn, derefCalls >>
    /\ UNCHANGED engineVars

\* drop: delete x.dependents[i]
DeleteEntry(i) ==
    /\ i \in 1 .. Len(dependents) /\ dependents[i] # Hole
    /\ dependents' = [dependents EXCEPT ![i] = Hole]
    /\ UNCHANGED << derefIn, derefCalls >>
    /\ UNCHANGED engineVars

\* deref(this.dependents, callback)
Traverse ==
    /\ dependents' = Deref(dependents).array
    /\ derefIn' = dependents
    /\ derefCalls' = Deref(dependents).calls
    /\ UNCHANGED engineVars

NextDeref ==
    \/ \E i \in 1 .. MaxLen : Collect(i)
    \/ \E i \in 1 .. MaxLen : DeleteEntry(i)
    \/ Traverse

SpecDeref == InitDeref /\ [][NextDeref]_vars

(***************************************************************************)
(* Properties.                                                             *)
(***************************************************************************)
Count(x, s) == Cardinality({i \in 1 .. Len(s) : s[i] = x})

\* a derived with declared dependencies whose calculation only combines its
\* arguments, over signals and deriveds of the same kind
RECURSIVE Plain(_)
Plain(n) ==
    /\ IsDerived(n) /\ Node(n).fixed /\ Node(n).ops = <<>>
    /\ \A i \in 1 .. Len(Node(n).deps) : IsSignal(Node(n).deps[i]) \/ Plain(Node(n).deps[i])

\* the calculation of a plain derived applied to the up-to-date values of its
\* dependencies: the value of a signal, the cached value of a dropped derived
RECURSIVE Ideal(_)
Ideal(n) ==
    IF IsSignal(n) \/ dropped[n] THEN value[n]
    ELSE Lin(Node(n).mul, SumSeq([i \in 1 .. Len(Node(n).deps) |-> Ideal(Node(n).deps[i])]),
             Node(n).add)

\* r is the outcome of a read of n
ReadsIdeal(r, n) == (r.err = NoError /\ r.wrote = {}) => r.ret = Ideal(n)

\* C1 (glitch-freedom): in every reachable state a top-level read of a
\* non-dropped derived that returns, and during which no signal is written,
\* returns its calculation applied to the up-to-date values of its dependencies,
\* that is a function of the current values of its source signals.
GlitchFreedom ==
    \A n \in NodeIds :
        (n <= created /\ Plain(n) /\ ~dropped[n]) =>
            ReadsIdeal(DerivedFun(Cur, n, Undefined), n)

IdempotenceStep ==
    \A n \in NodeIds :
        (lastOp'.op \in {"derived", "effect"} /\ lastOp'.node = n /\ lastOp'.err = NoError
            /\ ~dropped[n] /\ okRan[n]) =>
            /\ (since[n] \cap Sources(Cur, n) = {}) =>
                  (Count(n, lastOp'.ran) = 0 /\ (IsDerived(n) => lastOp'.ret = value[n]))
            /\ (after[n] \cap Sources(Cur, n) # {}) => Count(n, lastOp'.ran) = 1

\* C2 (idempotence): a top-level invocation of a derived or effect whose
\* callback has run, with no write to any of its sources since that run started,
\* does not run the callback and (derived) returns the cached value; an
\* invocation after a value-changing write to one of its sources that followed
\* the run runs the callback exactly once.
Idempotence == [][IdempotenceStep]_vars

\* C3 (minimality): no call starts a callback whose previous run had returned
\* and none of whose transitive source signals was written since; a top-level
\* write runs only callbacks that depend on a signal written in the course of it.
Minimality ==
    /\ lastOp.spur = {}
    /\ lastOp.op = "writable" =>
          \A i \in 1 .. Len(lastOp.ran) : Sources(Cur, lastOp.ran[i]) \cap lastOp.wrote # {}

\* in c = f(a, b) with a over {s, t} and b over {u}: after everything had run, a
\* write to u and update([c]) ran b and c again and left a alone
MinimalityWitness ==
    /\ Prog = ProgTransitive /\ lastOp.op = "update" /\ lastOp.ran = <<5, 6>>
    /\ lastOp.again = {5, 6} /\ okRan[4] /\ lastOp.err = NoError

\* the nodes with callbacks that the listed nodes pull, themselves included
RECURSIVE Upstream(_, _)
Upstream(todo, done) ==
    IF todo = {} THEN {n \in done : ~IsSignal(n)}
    ELSE LET n == CHOOSE x \in todo : TRUE
         IN  Upstream((todo \ {n}) \cup (Range(Node(n).deps) \ (done \cup {n})),
                      done \cup {n})

\* node n never ran, or a source of it was written since it last ran
Affected(n) == ~okRan[n] \/ since[n] \cap Sources(Cur, n) # {}

IsDiamond == Prog \in {ProgDiamond, ProgDiamondEffects}

DiamondStep ==
    /\ IsDiamond =>
          \A n \in Upstream(Range(lastOp'.items), {}) :
              Count(n, lastOp'.ran) = IF Affected(n) THEN 1 ELSE 0
    /\ (IsDiamond /\ lastOp.op = "update") => lastOp'.ran = <<>>

DiamondDedupStep ==
    (lastOp'.op = "update" /\ handler = "Manual" /\ lastOp'.err = NoError) =>
        /\ lastOp'.wrote = {} => \A n \in NodeIds : Count(n, lastOp'.ran) <= 1
        /\ DiamondStep

\* C4 (diamond dedup), amended: a bulk update under Manual during which no
\* callback writes a signal runs each callback at most once; in the diamond
\* graphs an update of the whole list runs each affected node exactly once and
\* no other, and an immediately repeated update runs none.
DiamondDedup == [][DiamondDedupStep]_vars

\* the diamond of deriveds: all five had run, and an update ran all five again
DiamondDedupWitness ==
    /\ lastOp.op = "update" /\ Prog = ProgDiamond /\ lastOp.again = {4, 5, 6, 7, 8}
    /\ Len(lastOp.ran) = 5

OncePerUpdateStep ==
    (lastOp'.op = "update" /\ handler = "Manual" /\ lastOp'.err = NoError) =>
        /\ \A n \in NodeIds : Count(n, lastOp'.ran) <= 1
        /\ DiamondStep

\* C4 as stated: every bulk update runs each callback at most once (and the
\* diamond graphs behave as above).
OncePerUpdate == [][OncePerUpdateStep]_vars

\* C5: under Manual only a direct invocation of a derived or effect, or
\* update(list), runs callbacks; constructing a node or writing a signal runs none.
ManualRunsNothing ==
    (handler = "Manual" /\ lastOp.ran # <<>>) => lastOp.op \in {"derived", "effect", "update"}

\* under Manual a write changed a signal and left an effect that had run outdated
ManualRunsNothingWitness ==
    /\ handler = "Manual" /\ lastOp.op = "writable" /\ lastOp.wrote # {}
    /\ \E n \in NodeIds : dirty[n] /\ okRan[n] /\ IsEffect(n)

SameValueStep ==
    \A n \in NodeIds :
        (lastOp'.op = "writable" /\ lastOp'.node = n /\ lastOp'.nargs = 1
            /\ lastOp'.arg = value[n]) =>
            /\ lastOp'.err = NoError /\ lastOp'.notes = <<>> /\ lastOp'.ran = <<>>
            /\ value' = value /\ current' = current /\ seqN' = seqN
            /\ dirty' = dirty /\ checked' = checked /\ dq' = dq /\ eq' = eq

\* C6: a top-level write of the value a signal already holds returns and leaves
\* every value, every stamp and the clock as they were; the handler is not
\* notified, no callback runs and no dependent becomes outdated.
SameValueWriteIsNoOp == [][SameValueStep]_vars

\* a signal was written the value it held, with an up-to-date dependent
SameValueWitness ==
    /\ lastOp.op = "writable" /\ lastOp.nargs = 1 /\ lastOp.arg = value[lastOp.node]
    /\ lastOp.wrote = {}
    /\ \E n \in NodeIds : okRan[n] /\ ~dirty[n] /\ lastOp.node \in Sources(Cur, n)

\* C7 (write/read round trip): after the writable handle was called with one
\* argument v and returned, a zero-argument call of the writable handle and of a
\* readonly view return v, for every v.
WriteReadRoundTrip ==
    (lastOp.op = "writable" /\ lastOp.nargs = 1 /\ lastOp.err = NoError) =>
        /\ Wfun(Cur, lastOp.node, Undefined).ret = lastOp.arg
        /\ Rfun(Cur, lastOp.node, Undefined).ret = lastOp.arg

NonWritableStep ==
    (lastOp'.op \in {"readonly", "derived"} /\ lastOp'.nargs = 1) =>
        /\ lastOp'.err = "TypeError"
        /\ value' = value /\ current' = current /\ seqN' = seqN

\* C8: a call of a readonly view or of a derived handle with one argument,
\* whatever the argument, throws TypeError and leaves values, stamps and the
\* clock as they were.
NonWritableThrows == [][NonWritableStep]_vars

WriteInDerivedStep ==
    \A i \in 1 .. Len(lastOp'.tries) :
        LET t == lastOp'.tries[i]
        IN  (t.op = "write" /\ IsDerived(t.by)) =>
                /\ t.err = "ERR_WRITE" /\ t.same /\ t.runs = 0
                /\ value'[t.by] = value[t.by]
                /\ (lastOp'.op = "derived" /\ lastOp'.node = t.by) =>
                      /\ lastOp'.err = "ERR_WRITE"
                      /\ seqN' = seqN
                      /\ \A m \in NodeIds :
                            IsSignal(m) => value'[m] = value[m] /\ current'[m] = current[m]

\* C9: every write a derived calculation attempts, of the static or the dynamic
\* flavour, throws ReentryError (ERR_WRITE) from the write, with every signal's
\* value and stamp and the clock as before the attempt; the cached value of that
\* derived stays as it was, and a top-level call of it ends with that error.
WriteInDerivedDenied == [][WriteInDerivedStep]_vars

\* a call of the dynamic derived that reads s and writes it ended with ERR_WRITE
WriteInDerivedWitness ==
    /\ lastOp.op = "derived" /\ lastOp.err = "ERR_WRITE" /\ ~Node(lastOp.node).fixed
    /\ Len(lastOp.tries) = 1 /\ lastOp.tries[1].by = lastOp.node
    /\ value[lastOp.node] = Undefined

\* C10: every effect call made by a derived calculation or an effect action
\* throws ReentryError (ERR_CALL) without starting any callback and without
\* touching a signal, and the top-level call it happened in ends with a
\* ReentryError.
CallInCallbackDenied ==
    \A i \in 1 .. Len(lastOp.tries) :
        LET t == lastOp.tries[i]
        IN  t.op = "call" =>
                /\ t.err = "ERR_CALL" /\ t.runs = 0 /\ t.same
                /\ lastOp.err \in ReentryErrors

\* an effect whose action calls an effect that had run was invoked and threw
CallInCallbackWitness ==
    /\ lastOp.op = "effect" /\ lastOp.err = "ERR_CALL" /\ Len(lastOp.tries) = 1
    /\ lastOp.ran = <<lastOp.node>> /\ okRan[lastOp.tries[1].node]

\* C11: a top-level call during which a node's handle is called while that node
\* is being recomputed, directly or through other static or dynamic nodes, ends
\* with ReentryError (ERR_LOOP) after a bounded number of callback runs, and no
\* callback of a node starts while a callback of that node is in progress;
\* after every top-level call every node's visited flag is false.
LoopDetection ==
    /\ \A n \in NodeIds : ~visited[n]
    /\ lastOp.loops # {} => lastOp.err = "ERR_LOOP" /\ Len(lastOp.ran) < MaxFuel
    /\ lastOp.reran = {}

\* the static derived declared over a dynamic derived that reads it was called:
\* the loop closed through two nodes
LoopDetectionWitness ==
    /\ Prog = ProgLoop /\ lastOp.op = "derived" /\ lastOp.node = 5
    /\ lastOp.loops = {4, 5} /\ lastOp.err = "ERR_LOOP" /\ lastOp.ran = <<4>>

\* the signals the action of node n reads, through deriveds, and does not depend on
ReadOnlyIn(n) ==
    UNION {Sources(Cur, Node(n).ops[i].node) :
             i \in {j \in 1 .. Len(Node(n).ops) : Node(n).ops[j].op = "read"}}
       \ Sources(Cur, n)

EffectReadStep ==
    /\ \A i \in 1 .. Len(lastOp'.reads) :
          IsEffect(lastOp'.reads[i].by) =>
              /\ lastOp'.reads[i].err = NoError
              /\ lastOp'.reads[i].ret = lastOp'.reads[i].val
    /\ \A n \in NodeIds :
          (IsEffect(n) /\ Node(n).fixed /\ n <= created') =>
              /\ Range(inMap'[n]) = Range(Node(n).deps)
              /\ (okRan[n] /\ (since[n] \cup lastOp'.wrote) \subseteq ReadOnlyIn(n)) =>
                    Count(n, lastOp'.ran) = 0

ManualReadDenied ==
    \A i \in 1 .. Len(lastOp.reads) :
        (IsDerived(lastOp.reads[i].by) /\ Node(lastOp.reads[i].by).fixed
            /\ IsSignal(lastOp.reads[i].node)) =>
            lastOp.reads[i].err \in ReentryErrors

FeedbackPumped ==
    (Prog = ProgFeedback /\ handler = "Manual") =>
        /\ lastOp.err = NoError
        /\ (lastOp.op = "effect" /\ lastOp.node = 3) =>
              value[4] = Add(value[1], 1) /\ Count(3, lastOp.ran) <= 1
        /\ (lastOp.op = "effect" /\ lastOp.node = 6) =>
              value[1] = Add(value[4], 2) /\ Count(6, lastOp.ran) <= 1
        /\ lastOp.op = "derived" => lastOp.wrote = {}

\* the second round: enterSetB ran again on the value enterSetA wrote, which is
\* not the initial one
FeedbackPumpedWitness ==
    /\ Prog = ProgFeedback /\ lastOp.op = "effect" /\ lastOp.node = 3
    /\ lastOp.again = {2, 3} /\ lastOp.wrote = {4} /\ value[1] = 0 /\ value[4] = 1

\* C16: with the two effects in a feedback loop every top-level call (constructing
\* a node, writing a source, calling an effect, update) ends before the budget of
\* callback runs is used up, under Manual, Immediate and Delayed.
FeedbackTerminates ==
    Prog \in {ProgFeedback, ProgFeedbackAuto} =>
        lastOp.err # "OutOfFuel" /\ Len(lastOp.ran) < MaxFuel

DropStep ==
    \A n \in NodeIds :
        dropped[n] =>
            /\ dropped'[n]
            /\ Count(n, lastOp'.ran) = 0
            /\ value'[n] = value[n]
            /\ (lastOp'.op = "derived" /\ lastOp'.node = n /\ lastOp'.nargs = 0) =>
                  lastOp'.err = NoError /\ lastOp'.ret = value[n]
            /\ (lastOp'.op = "drop" /\ lastOp'.node = n) =>
                  /\ lastOp'.err = NoError
                  /\ UNCHANGED << created, seqN, value, current, checked, dirty, dropped,
                                  visited, inMap, outMap, depth, processing, handles,
                                  track, dq, eq >>

\* C17: once a node is dropped it stays dropped, no top-level call under any
\* handler runs its callback (direct call, pull by a dependent, notification,
\* update), its cached value stays and a call of a dropped derived returns it;
\* dropping it again changes nothing.
DropIsFinal == [][DropStep]_vars

\* d had run, s was written and d dropped; the first call of the effect over d
\* then ran the action on d's cached value without running d
DropIsFinalWitness ==
    /\ Prog = ProgFacade /\ lastOp.op = "effect" /\ lastOp.ran = <<3>>
    /\ dropped[2] /\ okRan[2] /\ 1 \in since[2] /\ seen[3] = value[2]
    /\ value[2] # Add(value[1], 1)

\* the lists handed to the handler by the notifications of a call, deriveds
\* before effects, one notification after the other
RECURSIVE Handed(_)
Handed(notes) ==
    IF notes = <<>> THEN <<>> ELSE Head(notes).ds \o Head(notes).es \o Handed(Tail(notes))

\* the signals node n depends on through deriveds that are not dropped
RECURSIVE LiveSources(_)
LiveSources(n) ==
    IF IsSignal(n) THEN {n}
    ELSE IF dropped[n] THEN {}
    ELSE UNION {LiveSources(d) : d \in DepsOf(Cur, n)}

\* an effect without steps, over signals and plain deriveds
PlainEffect(n) ==
    /\ IsEffect(n) /\ Node(n).fixed /\ Node(n).ops = <<>>
    /\ \A i \in 1 .. Len(Node(n).deps) : IsSignal(Node(n).deps[i]) \/ Plain(Node(n).deps[i])

\* C18: under Immediate, constructing a derived or an effect runs it before the
\* constructor returns; a top-level write that returns has called, notification
\* by notification, the affected deriveds and then the affected effects, and
\* every effect that is not dropped and depends on the written signal, directly
\* or through deriveds, has run during the write; when no other signal was
\* written meanwhile its last action was on the up-to-date values of its
\* dependencies.
ImmediateRuns ==
    (handler = "Immediate" /\ lastOp.err = NoError) =>
        /\ (lastOp.op = "construct" /\ ~IsSignal(lastOp.node)) =>
              (lastOp.ran # <<>> /\ Head(lastOp.ran) = lastOp.node)
        /\ (lastOp.op = "writable" /\ lastOp.wrote # {}) =>
              /\ lastOp.calls = Handed(lastOp.notes)
              /\ \A n \in NodeIds :
                    (n <= created /\ IsEffect(n) /\ ~dropped[n]
                        /\ lastOp.node \in LiveSources(n)) =>
                        /\ Count(n, lastOp.ran) >= 1
                        /\ (PlainEffect(n) /\ lastOp.wrote = {lastOp.node}) =>
                              seen[n] = SumSeq([i \in 1 .. Len(Node(n).deps) |->
                                                  Ideal(Node(n).deps[i])])

\* a write of s ran d before the effect over s that was constructed before d, and
\* then the effect over d, on the new value
ImmediateRunsWitness ==
    /\ Prog = ProgOrder /\ handler = "Immediate" /\ lastOp.op = "writable"
    /\ lastOp.ran = <<3, 2, 4>> /\ lastOp.again = {2, 3, 4} /\ lastOp.err = NoError
    /\ seen[4] = Add(value[1], 1)

\* C19: at most one call of the handler made by a notification is under way at
\* any time; a write made by a callback returns without any callback having
\* run inside it (its notification waits in handles); in the feedback loops the
\* enter / exit counter never exceeds 2, however many writes the effects chain
\* in one top-level call.
WritesQueued ==
    /\ lastOp.nest <= 1
    /\ \A i \in 1 .. Len(lastOp.tries) :
          (lastOp.tries[i].op = "write" /\ lastOp.tries[i].err = NoError) =>
              lastOp.tries[i].runs = 0
    /\ Prog \in {ProgFeedback, ProgFeedbackAuto} => lastOp.deep <= 2

\* under Immediate a write of s ran the effect that writes t while s was being
\* notified, and t and c were notified afterwards
WritesQueuedWitness ==
    /\ Prog = ProgRelay /\ handler = "Immediate" /\ lastOp.op = "writable"
    /\ lastOp.wrote = {1, 2} /\ Len(lastOp.notes) >= 2 /\ lastOp.nest = 1
    /\ lastOp.err = NoError /\ lastOp.tries[1].runs = 0 /\ lastOp.notes[2].node = 2

\* C20, amended: under Delayed, constructing a node and writing a signal run no
\* callback (a constructed derived or effect is recorded in the handler's maps
\* instead); callbacks run only inside update() or a direct call of a derived
\* or an effect.
DelayedRunsOnDrain ==
    handler = "Delayed" =>
        /\ lastOp.ran # <<>> => lastOp.op \in {"update", "derived", "effect"}
        /\ (lastOp.op = "construct" /\ ~IsSignal(lastOp.node)) =>
              lastOp.node \in Range(dq) \cup Range(eq)

\* under Delayed a write changed a signal and ran nothing: a derived that had run
\* is outdated and waits in the handler's map
DelayedRunsOnDrainWitness ==
    /\ handler = "Delayed" /\ lastOp.op = "writable" /\ lastOp.wrote # {}
    /\ lastOp.ran = <<>>
    /\ \E n \in NodeIds : okRan[n] /\ dirty[n] /\ n \in Range(dq)

\* C20 as stated: under Delayed callbacks run only inside update().
DelayedOnlyDrain ==
    (handler = "Delayed" /\ lastOp.ran # <<>>) => lastOp.op = "update"


(***************************************************************************)
(* C21: the Delayed queue is a set keyed by node id, so a node notified    *)
(* several times between two drains is invoked at most once by the next    *)
(* drain; a drain that returns invokes every queued derived, then every    *)
(* queued effect, leaves none of the invoked entries queued, and returns   *)
(* exactly the nodes it invoked.                                           *)
(***************************************************************************)
NoDup(q) == \A i, j \in 1 .. Len(q) : q[i] = q[j] => i = j

IsDrain == handler = "Delayed" /\ lastOp'.op = "update" /\ lastOp'.err = NoError

DrainInvokesQueue ==
    /\ NoDup(dq \o eq)
    /\ lastOp'.calls = dq \o eq
    /\ lastOp'.drained = <<dq, eq>>

DrainStep ==
    IsDrain => /\ DrainInvokesQueue
               /\ Range(lastOp'.calls) \cap (Range(dq') \cup Range(eq')) = {}

DrainClearsQueue == [][DrainStep]_vars

(***************************************************************************)
(* C22: under Delayed, after a value-changing write of a source followed   *)
(* by one drain, every effect that is not dropped and depends on the       *)
(* written source, directly or through deriveds, has run with the new      *)
(* values, whatever writes and drains came before.                         *)
(***************************************************************************)
\* the step is one drain that directly follows a value-changing write
DrainAfterWrite ==
    /\ handler = "Delayed"
    /\ lastOp.op = "writable" /\ lastOp.err = NoError /\ lastOp.wrote = {lastOp.node}
    /\ lastOp'.op = "update" /\ lastOp'.err = NoError /\ lastOp'.wrote = {}

\* effect n depends on the written source and is not dropped
EffectOver(n, s) ==
    n <= created /\ PlainEffect(n) /\ ~dropped[n] /\ s \in LiveSources(n)

DrainDeliversStep ==
    DrainAfterWrite =>
        \A n \in NodeIds :
            EffectOver(n, lastOp.node) =>
                seen'[n] = SumSeq([i \in 1 .. Len(Node(n).deps) |-> Ideal(Node(n).deps[i])])

DrainDelivers == [][DrainDeliversStep]_vars

(***************************************************************************)
(* C23: for a layered graph of pure deriveds and a sequence of source      *)
(* writes, the values read from the deriveds afterwards are the same       *)
(* under Manual, Immediate and Delayed (also after a drain) and the same   *)
(* for the static and the dynamic formulation of a calculation: a signal   *)
(* holds the value last written, and every read of a derived returns its   *)
(* calculation applied to the values of the signals below it.              *)
(***************************************************************************)
\* what the callback of n adds up: its declared dependencies, then what it reads
Inputs(n) == Node(n).deps \o [i \in 1 .. Len(Node(n).ops) |-> Node(n).ops[i].node]

\* a derived, of either flavour, that only adds up signals and pure deriveds of
\* the layers constructed before it
RECURSIVE Pure(_)
Pure(n) ==
    /\ IsDerived(n)
    /\ \A i \in 1 .. Len(Node(n).ops) : Node(n).ops[i].op = "read"
    /\ \A i \in 1 .. Len(Inputs(n)) :
          IsSignal(Inputs(n)[i]) \/ (Inputs(n)[i] < n /\ Pure(Inputs(n)[i]))

\* the value of a pure derived as a function of the values of the signals
RECURSIVE Denote(_)
Denote(n) ==
    IF IsSignal(n) THEN value[n]
    ELSE Lin(Node(n).mul, SumSeq([i \in 1 .. Len(Inputs(n)) |-> Denote(Inputs(n)[i])]),
             Node(n).add)

\* n and m are formulations of the same calculation over the same signals
RECURSIVE SameCalc(_, _)
SameCalc(n, m) ==
    IF IsSignal(n) \/ IsSignal(m) THEN n = m
    ELSE /\ Node(n).mul = Node(m).mul /\ Node(n).add = Node(m).add
         /\ Len(Inputs(n)) = Len(Inputs(m))
         /\ \A i \in 1 .. Len(Inputs(n)) : SameCalc(Inputs(n)[i], Inputs(m)[i])

PureGraph == created = Len(Prog.nodes) /\ \A k \in NodeIds : IsSignal(k) \/ Pure(k)

ReadOf(n) == DerivedFun(Cur, n, Undefined)

\* r is the outcome of a call that returned v
Returns(r, v) == r.err = NoError /\ r.ret = v

StrategyFlavorEquivalence ==
    PureGraph =>
        /\ (lastOp.op = "writable" /\ lastOp.nargs = 1 /\ lastOp.err = NoError) =>
              value[lastOp.node] = lastOp.arg
        /\ \A n \in NodeIds :
              Pure(n) => Returns(ReadOf(n), Denote(n))
        /\ \A n, m \in NodeIds :
              (n < m /\ Pure(n) /\ Pure(m) /\ SameCalc(n, m)) =>
                  ReadOf(n).ret = ReadOf(m).ret

\* under Delayed, after a source was written and one drain ran deriveds of both
\* flavours, the static and the dynamic second layer both read 2 * (2 + 1) + 1
StrategyFlavorWitness ==
    /\ PureGraph /\ handler = "Delayed" /\ lastOp.op = "update"
    /\ {4, 6} \subseteq Range(lastOp.ran)
    /\ value[1] = 2 /\ value[2] = 1
    /\ Node(4).fixed /\ ~Node(6).fixed /\ SameCalc(4, 6)
    /\ ReadOf(4).ret = Lin(2, 3, 1) /\ ReadOf(6).ret = Lin(2, 3, 1)

(***************************************************************************)
(* C24: a dynamic derived or effect depends on exactly the nodes read      *)
(* during its most recent run: a run replaces its incoming edges by the    *)
(* nodes its callback read, together with deriveds that static deriveds    *)
(* recomputed during the run are declared over and nothing else; an        *)
(* invocation after a value-changing write to a source                     *)
(* of that run runs the callback again, and an invocation after writes     *)
(* only to nodes that an earlier run read, and the most recent one did     *)
(* not, runs nothing.                                                      *)
(***************************************************************************)
\* the nodes the callback of n read during the call
ReadBy(reads, n) == {reads[i].node : i \in {j \in 1 .. Len(reads) : reads[j].by = n}}

\* the deriveds that the static nodes among ns are declared over
DeclaredUnder(ns) ==
    {d \in NodeIds : IsDerived(d) /\ \E b \in ns : Node(b).fixed /\ d \in Range(Node(b).deps)}

\* node n is on the outgoing side of exactly its incoming edges
EdgesMirror(n) ==
    \A s \in NodeIds : (n \in Range(outMap'[s])) <=> (s \in Range(inMap'[n]))

DynamicDepsStep ==
    \A n \in NodeIds :
        (n <= created /\ ~Node(n).fixed) =>
            /\ (Count(n, lastOp'.ran) = 1 /\ lastOp'.err = NoError) =>
                  /\ ReadBy(lastOp'.reads, n) \subseteq Range(inMap'[n])
                  /\ Range(inMap'[n]) \subseteq
                        ReadBy(lastOp'.reads, n) \cup DeclaredUnder(Range(lastOp'.ran))
                  /\ EdgesMirror(n)
            /\ (lastOp'.op \in {"derived", "effect"} /\ lastOp'.node = n
                   /\ lastOp'.err = NoError /\ ~dropped[n] /\ okRan[n]) =>
                  /\ (after[n] \cap Sources(Cur, n) # {}) => Count(n, lastOp'.ran) = 1
                  /\ (since[n] \cap Sources(Cur, n) = {}) => Count(n, lastOp'.ran) = 0

SuspendedStep ==
    suspended =>
        /\ lastOp'.ran = <<>>
        /\ (lastOp'.op = "writable" /\ lastOp'.nargs = 0) =>
              (lastOp'.err = NoError /\ lastOp'.ret = value[lastOp'.node])
        /\ (lastOp'.op = "writable" /\ lastOp'.nargs = 1 /\ lastOp'.arg \in Numbers) =>
              (lastOp'.err = NoError /\ value'[lastOp'.node] = lastOp'.arg)
        /\ (lastOp'.op = "derived" /\ Initialized(Cur, lastOp'.node)) =>
              /\ lastOp'.err = NoError
              /\ lastOp'.ret = Frozen(Cur, lastOp'.node)
              /\ value'[lastOp'.node] = value[lastOp'.node]
        /\ (lastOp'.op = "derived" /\ ~Initialized(Cur, lastOp'.node)) =>
              lastOp'.err = "SuspendError"
        /\ lastOp'.op = "effect" => lastOp'.err = "SuspendError"

ResumedStep ==
    (~suspended /\ Prog \in Suspends /\ lastOp'.nargs = 0) =>
        /\ (lastOp'.op = "derived") =>
              (lastOp'.err = NoError /\ lastOp'.ret = Ideal(lastOp'.node))
        /\ (lastOp'.op = "effect") =>
              /\ lastOp'.err = NoError
              /\ seen'[lastOp'.node] = SumSeq([i \in 1 .. Len(Node(lastOp'.node).deps) |->
                                                 Ideal(Node(lastOp'.node).deps[i])])

SuspendResume == [][SuspendedStep /\ ResumedStep]_vars

\* while suspended the signal was written 2, and a read of the derived with the
\* initial value 3, which never ran, returned 3 and ran nothing
SuspendResumeWitness ==
    /\ Prog = ProgSuspend /\ suspended
    /\ lastOp.op = "derived" /\ lastOp.node = 2 /\ lastOp.ran = <<>> /\ lastOp.ret = 3
    /\ lastOp.err = NoError /\ value[1] = 2 /\ ~okRan[2]

(***************************************************************************)
(* C26: after an invocation failed with a ReentryError the guard is idle   *)
(* again: the tracking state is the initial one and no node is marked      *)
(* visited, and a following top-level write, derived read or effect        *)
(* invocation in which only well-behaved callbacks run is not denied and   *)
(* gives up-to-date values, however often this is repeated.                *)
(***************************************************************************)
GuardIdle == track = Track0 /\ depth = 0 /\ \A n \in NodeIds : ~visited[n]

\* only callbacks without steps ran during the call
OnlyPlainRan(ran) == \A i \in 1 .. Len(ran) : Node(ran[i]).ops = <<>>

AfterReentryStep ==
    (lastOp.err \in ReentryErrors /\ OnlyPlainRan(lastOp'.ran)
        /\ lastOp'.op \in {"writable", "derived", "effect"} /\ ~dropped[lastOp'.node]) =>
        /\ lastOp'.err = NoError
        /\ (lastOp'.op = "writable" /\ lastOp'.nargs = 1) =>
              value'[lastOp'.node] = lastOp'.arg
        /\ (lastOp'.op = "derived" /\ Plain(lastOp'.node)) =>
              lastOp'.ret = Ideal(lastOp'.node)
        /\ (lastOp'.op = "effect" /\ PlainEffect(lastOp'.node)) =>
              seen'[lastOp'.node] =
                  SumSeq([i \in 1 .. Len(Node(lastOp'.node).deps) |->
                            Ideal(Node(lastOp'.node).deps[i])])

GuardRecovers ==
    [][(lastOp'.err \in ReentryErrors => GuardIdle') /\ AfterReentryStep]_vars

(***************************************************************************)
(* C27: the version clock never decreases and advances by exactly one on   *)
(* every signal creation and every value-changing write (a write through   *)
(* the handle that stores a new value, or a modify); a signal's            *)
(* current is the clock value it got at its creation or its most recent    *)
(* value-changing write, so no two signals carry the same stamp, and no    *)
(* node's current or checked exceeds the clock.                            *)
(***************************************************************************)
\* the value-changing writes made by callbacks during the call
NestedWrites(tries) ==
    Cardinality({i \in 1 .. Len(tries) :
                    tries[i].op \in {"write", "modify"} /\ ~tries[i].same})

\* the signal creations and value-changing writes of the call
ClockTicks(op) ==
    (IF op.op = "construct" /\ IsSignal(op.node) THEN 1 ELSE 0)
    + (IF op.op \in {"writable", "modify"} /\ op.node \in op.wrote THEN 1 ELSE 0)
    + NestedWrites(op.tries)

Stamped(n) == (lastOp'.op = "construct" /\ lastOp'.node = n) \/ n \in lastOp'.wrote

ClockStep ==
    /\ seqN' >= seqN
    /\ seqN' = seqN + ClockTicks(lastOp')
    /\ \A n \in NodeIds :
          /\ current'[n] <= seqN' /\ checked'[n] <= seqN'
          /\ (IsSignal(n) /\ n <= created') =>
                /\ IF Stamped(n) THEN current'[n] > seqN ELSE current'[n] = current[n]
                /\ \A m \in NodeIds :
                      (IsSignal(m) /\ m <= created' /\ m # n) => current'[m] # current'[n]
    /\ seqN' > seqN => \E n \in NodeIds : IsSignal(n) /\ current'[n] = seqN'

ClockMonotone == [][ClockStep]_vars

\* one top-level write made the clock advance twice: an effect it ran wrote
\* another signal, and the two signals carry the last two clock values
ClockMonotoneWitness ==
    /\ lastOp.op = "writable" /\ lastOp.err = NoError
    /\ ClockTicks(lastOp) = 2 /\ Cardinality(lastOp.wrote) = 2
    /\ {current[n] : n \in lastOp.wrote} = {seqN - 1, seqN}

(***************************************************************************)
(* C28: when a source is written, the deriveds and effects reported to the *)
(* execution handler for that change include every linked node that is    *)
(* not dropped and depends on the written source, directly or through      *)
(* deriveds.                                                               *)
(***************************************************************************)
\* the nodes reached from the listed ones over the reverse edges, dropped ones
\* and what lies behind them left out
RECURSIVE Downstream(_, _)
Downstream(todo, done) ==
    IF todo = {} THEN done
    ELSE LET n == CHOOSE x \in todo : TRUE
             out == {d \in Range(outMap[n]) : ~dropped[d]}
         IN  Downstream((todo \ {n}) \cup (out \ (done \cup {n})), done \cup {n})

Dependents(s) == Downstream({s}, {}) \ {s}

WriteReportsStep ==
    (lastOp'.op = "writable" /\ lastOp'.err = NoError
        /\ lastOp'.wrote = {lastOp'.node}) =>
        Dependents(lastOp'.node) \subseteq Range(Handed(lastOp'.notes))

WriteReportsAll == [][WriteReportsStep]_vars

(***************************************************************************)
(* C29: during the reverse-edge walk of one notification each dependent    *)
(* is expanded at most once and appears at most once in the lists passed   *)
(* to the handler, also where several paths lead to the same node; the     *)
(* walk ends after at most one expansion per node.                         *)
(***************************************************************************)
WalkOnce ==
    \A i \in 1 .. Len(lastOp.notes) :
        /\ NoDup(lastOp.notes[i].trav)
        /\ NoDup(lastOp.notes[i].ds \o lastOp.notes[i].es)
        /\ Len(lastOp.notes[i].trav) <= Cardinality(NodeIds)

\* a write to a source of a diamond: both arms were expanded, and the derived
\* they both lead to was expanded once
WalkOnceWitness ==
    /\ IsDiamond /\ lastOp.op = "writable" /\ Len(lastOp.notes) = 1
    /\ \E d \in NodeIds, a, b \in Range(lastOp.notes[1].trav) :
          /\ a # b /\ {a, b} \subseteq Range(inMap[d])
          /\ Count(d, lastOp.notes[1].trav) = 1

(***************************************************************************)
(* C30, amended: in the writable facade the permission check comes before  *)
(* the sameness check: inside a derived calculation a write of a value     *)
(* identical to the current one raises ReentryError like every other       *)
(* write; where writes are allowed it is a silent no-op.                   *)
(***************************************************************************)
\* the writes callbacks attempted during the call with the value the signal had
SameValueTries ==
    {i \in 1 .. Len(lastOp.tries) :
        /\ lastOp.tries[i].op = "write" /\ ~IsNullish(lastOp.tries[i].val)
        /\ ObjectIs(lastOp.tries[i].old, lastOp.tries[i].val)}

PermissionBeforeSameness ==
    \A i \in SameValueTries :
        IF IsDerived(lastOp.tries[i].by)
        THEN lastOp.tries[i].err = "ERR_WRITE"
        ELSE /\ lastOp.tries[i].err = NoError
             /\ lastOp.tries[i].same /\ lastOp.tries[i].runs = 0

\* a derived whose calculation writes back the value it read from the signal
\* was read, and the read failed with the error of a denied write
PermissionBeforeSamenessWitness ==
    /\ lastOp.op = "derived" /\ lastOp.err = "ERR_WRITE"
    /\ \E i \in SameValueTries :
          lastOp.tries[i].by = lastOp.node /\ lastOp.tries[i].err = "ERR_WRITE"

\* C30 as stated: a write of the value the signal has is a silent no-op
\* wherever it is made.
SamenessBeforePermission ==
    \A i \in SameValueTries : lastOp.tries[i].err = NoError

(***************************************************************************)
(* C31: for every derived and every effect, in every reachable state,       *)
(* current <= checked <= clock: its stamp is never newer than the clock      *)
(* value at which it was last checked, also after an effect's action wrote   *)
(* one of the effect's own sources.                                          *)
(***************************************************************************)
StampOrder ==
    \A n \in NodeIds :
        ~IsSignal(n) => current[n] <= checked[n] /\ checked[n] <= seqN

(***************************************************************************)
(* C32: modify(signal, f) called by a client with a manipulator that        *)
(* returns applies f to the stored value, advances the clock by one and     *)
(* stamps the signal with it, and notifies the handler; afterwards every    *)
(* dependent of the signal that is not dropped has recomputed during the    *)
(* call or will on its next invocation (it is dirty and its checked stamp   *)
(* is behind the clock), also when f left the value as it was.  A modify    *)
(* called by the calculation of a derived throws ReentryError and runs no   *)
(* manipulator.                                                             *)
(***************************************************************************)
TopModify == lastOp'.op = "modify" /\ lastOp'.arg # Fail

ModifyApplies ==
    TopModify =>
        /\ value'[lastOp'.node] = Add(value[lastOp'.node], lastOp'.arg)
        /\ seqN' = seqN + 1 /\ current'[lastOp'.node] = seqN'

ModifyNotifies ==
    TopModify =>
        /\ \E i \in 1 .. Len(lastOp'.notes) : lastOp'.notes[i].node = lastOp'.node
        /\ \A d \in Dependents(lastOp'.node) :
              ~dropped'[d] =>
                  d \in Range(lastOp'.ran) \/ (dirty'[d] /\ checked'[d] < seqN')

ModifyDenied ==
    \A i \in 1 .. Len(lastOp'.tries) :
        (lastOp'.tries[i].op = "modify" /\ IsDerived(lastOp'.tries[i].by)) =>
            /\ lastOp'.tries[i].err = "ERR_WRITE"
            /\ lastOp'.tries[i].same /\ lastOp'.tries[i].manip = 0

ModifyInPlace == [][ModifyApplies /\ ModifyNotifies /\ ModifyDenied]_vars

(***************************************************************************)
(* C33: an effect whose action writes a signal the effect depends on,       *)
(* directly or through deriveds, is never started while its action is       *)
(* executing and is started at most once in one top-level call, under        *)
(* every handler.                                                            *)
(***************************************************************************)
\* the effects whose action writes one of the signals they depend on
WritesOwnSource(n) ==
    /\ IsEffect(n) /\ n <= created
    /\ \E i \in 1 .. Len(Node(n).ops) :
          Node(n).ops[i].op = "write" /\ Node(n).ops[i].node \in Sources(Cur, n)

NoSelfTrigger ==
    \A n \in NodeIds :
        WritesOwnSource(n) => n \notin lastOp.reran /\ Count(n, lastOp.ran) <= 1

(***************************************************************************)
(* C34: the reads recorded for a dynamic derived or effect are the reads    *)
(* its own callback made: after a run that returned, every incoming edge    *)
(* of the node leads to a node its callback read, never to a node that      *)
(* was read only while a nested node was recomputed (the declared            *)
(* dependencies of a static derived included); after every top-level call,  *)
(* also one that threw, the recording context is the initial one.           *)
(***************************************************************************)
RecordingScopedStep ==
    /\ track' = Track0
    /\ \A n \in NodeIds :
          (n <= created /\ ~Node(n).fixed
              /\ Count(n, lastOp'.ran) = 1 /\ lastOp'.err = NoError) =>
              Range(inMap'[n]) \subseteq ReadBy(lastOp'.reads, n)

RecordingScoped == [][RecordingScopedStep]_vars

(***************************************************************************)
(* C35: in no reachable state is a derived or effect that is not dropped    *)
(* dirty while its checked stamp equals the clock, so an invocation of a    *)
(* dirty node always runs its callback.                                     *)
(***************************************************************************)
DirtyIsOutdated ==
    \A n \in NodeIds :
        (n <= created /\ ~IsSignal(n) /\ ~dropped[n] /\ dirty[n]) =>
            Outdated(seqN, checked[n])

(***************************************************************************)
(* C36: a derived whose recomputation yields the value it had cached does   *)
(* not notify the handler: in a top-level call in which a derived that had  *)
(* a value ran once and ended with the same value, no notification names    *)
(* that derived as the changed node.                                        *)
(***************************************************************************)
SameValueRecomputed(d) ==
    /\ IsDerived(d) /\ okRan[d] /\ Count(d, lastOp'.ran) = 1 /\ okRan'[d]
    /\ ObjectIs(value[d], value'[d])

QuietRecomputeStep ==
    \A d \in NodeIds :
        SameValueRecomputed(d) =>
            \A i \in 1 .. Len(lastOp'.notes) : lastOp'.notes[i].node # d

QuietRecompute == [][QuietRecomputeStep]_vars

(***************************************************************************)
(* C37: between top-level calls, also after a call that ended with an      *)
(* exception thrown by a calculation, an action, a manipulator of modify   *)
(* or a handler, the nesting counter is 0, the processing flag is false     *)
(* and no notification is pending.                                          *)
(***************************************************************************)
Quiescent == depth = 0 /\ ~processing /\ handles = <<>>

(***************************************************************************)
(* C38: under Delayed no recorded node is lost by a drain: every node that  *)
(* was queued when update() was called, and every node a notification       *)
(* recorded while the drain was in progress, has been invoked by the drain  *)
(* or is queued when it ends.                                               *)
(***************************************************************************)
DrainKeepsStep ==
    (handler = "Delayed" /\ lastOp'.op = "update") =>
        \A n \in Range(dq) \cup Range(eq) \cup Range(Handed(lastOp'.notes)) :
            n \in Range(lastOp'.calls) \cup Range(dq') \cup Range(eq')

DrainKeeps == [][DrainKeepsStep]_vars

(***************************************************************************)
(* C39: forward and reverse edges agree: for every constructed derived or   *)
(* effect d that is not dropped and every node v, v is in d's _in map       *)
(* exactly if d is in v's _out map, in every reachable state (after         *)
(* construction, after every relink of a dynamic node and after every       *)
(* notification sweep).                                                     *)
(***************************************************************************)
EdgesConsistent ==
    \A d \in NodeIds :
        (d <= created /\ ~IsSignal(d) /\ ~dropped[d]) =>
            \A v \in NodeIds : (v \in Range(inMap[d])) <=> (d \in Range(outMap[v]))

\* under Immediate a write of 0 to c reran the dynamic derived, which had read c
\* and t before and now read c alone: the edge from t is gone on both sides
EdgesConsistentWitness ==
    /\ Prog = ProgSwitch /\ handler = "Immediate"
    /\ lastOp.op = "writable" /\ lastOp.node = 1 /\ lastOp.arg = 0
    /\ lastOp.err = NoError /\ 3 \in lastOp.again
    /\ inMap[3] = <<1>> /\ 3 \in Range(outMap[1]) /\ ~(3 \in Range(outMap[2]))

(***************************************************************************)
(* C40: a traversal of the array of weak references calls back exactly     *)
(* once for every entry that is alive and leaves the array holding exactly *)
(* the live entries, whatever the number and the positions of the dead,    *)
(* deleted or collected ones.                                              *)
(***************************************************************************)
Live(array) == {array[i] : i \in {j \in 1 .. Len(array) : ~IsDead(array[j])}}

TraverseStep ==
    derefIn' # derefIn \/ derefCalls' # derefCalls \/ Len(dependents') < Len(dependents) =>
        /\ Range(derefCalls') = Live(derefIn') /\ NoDup(derefCalls')
        /\ Range(dependents') = Live(derefIn') /\ NoDup(dependents')

DerefSweeps == [][TraverseStep]_vars

\* a traversal of an array whose first, last and two adjacent entries were dead
\* or deleted, with a live entry in between
DerefSweepsWitness ==
    /\ Len(derefIn) = MaxLen
    /\ IsDead(derefIn[1]) /\ IsDead(derefIn[2]) /\ ~IsDead(derefIn[3])
    /\ IsDead(derefIn[MaxLen])
    /\ Hole \in Range(derefIn) /\ Dead \in Range(derefIn)
    /\ derefCalls = <<derefIn[3]>> /\ dependents = <<derefIn[3]>>

====
